---------------------------- MODULE Spec2Model ----------------------------
(***************************************************************************)
(* A model of the REX2 decoder core and the player of move-anything-rex:   *)
(*                                                                         *)
(*   src/src/dsp/dwop.c        the DWOP decoder, mono and stereo           *)
(*   src/src/dsp/rex_parser.c  the IFF chunk walker and rex_parse          *)
(*   src/src/dsp/dwvw.c        the DWVW decoder                            *)
(*   src/src/dsp/rexwav_reader.c  rexwav_parse                             *)
(*   src/src/dsp/rex_plugin.c  the voices, set_param and render_block      *)
(*                                                                         *)
(* Number representation.  TLC's integers are 32 bits wide, so a C 32-bit  *)
(* word (int32_t or uint32_t) is held as its two's-complement SIGNED value *)
(* in -2^31 .. 2^31-1: the uint32_t 0xFFFFFFFF is held as -1, 0x80000000   *)
(* as -2^31.  A cast between int and uint32_t is then the identity, the    *)
(* arithmetic wraps (Add32, Sub32, Shl1), and an unsigned comparison is    *)
(* ULt/UGe.  A size_t (64 bits on the aarch64 target) is held as a record  *)
(* [hi, lo] of value hi * 2^31 + lo in rex_parser.c, where sizes are only  *)
(* added, and as its 8 bytes, least significant first, in rexwav_reader.c, *)
(* where they are multiplied.                                              *)
(*                                                                         *)
(* Specifications:                                                         *)
(*   Spec      one call of rex_parse on a file drawn from Files            *)
(*   SpecFree  Spec followed by calls of rex_free on the record            *)
(*   SpecDwop  one call of dwop_decode or dwop_decode_stereo on a payload  *)
(*             drawn from DwopInputs; LiveDwop adds that the call runs on  *)
(*   SpecTwice two calls of rex_parse on the same input bytes              *)
(*   SpecDwvw  calls of dwvw_decode on one state, one action per sample;   *)
(*             LiveDwvw adds that a call that was made runs on             *)
(*   SpecWav   one call of rexwav_parse on a file drawn from WavFiles      *)
(*   SpecPlugin  calls of on_midi, set_param and render_block on one       *)
(*             plugin instance                                             *)
(***************************************************************************)
EXTENDS Integers, Sequences, FiniteSets, TLC

VARIABLES
    \* ---- rex_parse (Spec) ----
    mem,            \* the input buffer followed by the mapped bytes after it
    data_len,       \* rex_parse's data_len: the first data_len bytes of mem
    rex,            \* the rex_file_t record
    pc,             \* "entry", "walk", "post", "returned", "freed", "fault", "trap", "idle"
    stack,          \* parse_chunks activations, innermost last: [boundary, offset]
    sdat_decoded,   \* rex_parse's local flag
    ret,            \* rex_parse's return value once pc = "returned"
    live,           \* heap blocks malloc'ed and not yet freed
    oob,            \* history: some byte at an index >= data_len was read
    past_boundary,  \* history: a handler was handed a payload ending past the boundary
    slce_seen,      \* history: the (offset, length) of every SLCE chunk walked
    sdat_seen,      \* history: number of SDAT chunks handed to the SDAT branch
    sdat_call,      \* history: the locals of the last decode_sdat call, or NoCall
    refused,        \* history: malloc has returned NULL to decode_sdat in this pass
    first,          \* history: what an earlier rex_parse of these bytes returned, or NoPass
    frees,          \* the calls of rex_free the caller has made on the record
    \* ---- dwop_decode / dwop_decode_stereo (SpecDwop) ----
    mode,           \* "mono", "stereo" or "idle"
    state,          \* dwop_state_t of the mono decoder
    br,             \* dwop_br_t, the stereo decoder's shared bit reader
    L, R,           \* dwop_ch_t, the stereo channel states
    out,            \* the samples written to out[], in order
    n,              \* the decode loop's counter
    max_samples,    \* max_samples / max_frames of the call
    dpc,            \* "loop", "right", "returned", "trap", "idle"
    last,           \* history: what the last decoded sample did
    \* ---- dwvw_decode (SpecDwvw) ----
    wx,             \* dwvw_state_t (wx.st) and the locals of the running call
    wpc,            \* "ready", "loop", "trap" or "idle"
    wcalls,         \* history: [asked, count, out] of the calls that returned
    \* ---- the plugin instance of rex_plugin.c (SpecPlugin) ----
    inst,           \* rex_instance_t, or <<>> when no instance exists
    pcall,          \* history: what the last call of the plugin API did
    pcount          \* history: the calls made so far, and the session's caps

parseVars == <<mem, data_len, rex, pc, stack, sdat_decoded, ret, live, oob,
               past_boundary, slce_seen, sdat_seen, sdat_call, refused, first,
               frees>>
dwopVars  == <<mode, state, br, L, R, out, n, max_samples, dpc, last>>
dwvwVars  == <<wx, wpc, wcalls>>
pluginVars == <<inst, pcall, pcount>>
vars      == <<parseVars, dwopVars, dwvwVars, pluginVars>>

---------------------------------------------------------------------------
(* 32-bit words *)

MaxInt32 == (65536 * 16384 - 1) * 2 + 1
MinInt32 == -MaxInt32 - 1

\* a + b leaves the int32 range (signed overflow)
AddOv(a, b) ==
    \/ a >= 0 /\ b >= 0 /\ a > MaxInt32 - b
    \/ a < 0 /\ b < 0 /\ a < MinInt32 - b

\* a - b leaves the int32 range
SubOv(a, b) ==
    \/ a >= 0 /\ b < 0 /\ a > MaxInt32 + b
    \/ a < 0 /\ b > 0 /\ a < MinInt32 + b

\* a + b modulo 2^32
Add32(a, b) ==
    IF a >= 0 /\ b >= 0 /\ a > MaxInt32 - b
        THEN (a - MaxInt32 - 1) + (b - MaxInt32 - 1)
    ELSE IF a < 0 /\ b < 0 /\ a < MinInt32 - b
        THEN (a + MaxInt32 + 1) + (b + MaxInt32 + 1)
    ELSE a + b

\* -a modulo 2^32
Neg32(a) == IF a = MinInt32 THEN MinInt32 ELSE -a

\* a - b modulo 2^32
Sub32(a, b) ==
    IF b = MinInt32 THEN Add32(Add32(a, MaxInt32), 1) ELSE Add32(a, -b)

\* a << 1 and a << 2 modulo 2^32
Shl1(a) == Add32(a, a)
Shl2(a) == Shl1(Shl1(a))

\* (uint32_t)a >> k, for k in 1..30
Lshr(a, k) ==
    IF a >= 0 THEN a \div (2^k)
    ELSE (((a + MaxInt32) + 1) \div (2^k)) + 2^(31 - k)

\* a >> 1 of an int32_t (arithmetic)
Asr1(a) == a \div 2

\* unsigned comparisons of two words
ULt(a, b) ==
    \/ a >= 0 /\ b < 0
    \/ (a >= 0) = (b >= 0) /\ a < b
UGe(a, b) == ~ULt(a, b)

\* a ^ -1
Not32(a) == -a - 1

\* (int16_t)a
Int16(a) == LET m == a % 65536 IN IF m >= 32768 THEN m - 65536 ELSE m

---------------------------------------------------------------------------
(* Loops.  A C loop with loop variables x is a recursive operator           *)
(* XLoop(x, left) built from its body XStep and its condition XCont.  TLC    *)
(* runs a recursive operator on the Java stack, so the iterations are taken  *)
(* in stretches: XLoop(x, left) with left >= 0 takes at most left            *)
(* iterations, and XLoop(x, -1) runs the loop to its exit, StretchLen        *)
(* iterations at a time, each stretch finished before the next starts.       *)

StretchLen == 8

---------------------------------------------------------------------------
(* dwop.c: constants and the mono decoder *)

PRED_MAP == <<0, 1, 4, 2, 3>>
DWOP_ENERGY_INIT == 2560
DWOP_MAX_UNARY == 50000

\* data[i] of a byte pointer whose mapped bytes are the sequence data; a
\* read past the mapped bytes is a fault, which the calling action decides
\* from byte_pos, so the value given here is never used
Rd(data, i) == IF i < Len(data) THEN data[i + 1] ELSE 0

\* BrBit taking the bits of a byte from the least significant end
BrBitLsbFirst(st) ==
    IF st.bit_pos = 0 /\ st.byte_pos >= st.data_len THEN [bit |-> 0, st |-> st]
    ELSE LET s1 == IF st.bit_pos = 0
                       THEN [st EXCEPT !.cur = Rd(st.data, st.byte_pos),
                                       !.byte_pos = @ + 1, !.bit_pos = 8]
                   ELSE st
             s2 == [s1 EXCEPT !.bit_pos = @ - 1]
         IN [bit |-> (s2.cur \div (2^(7 - s2.bit_pos))) % 2, st |-> s2]

\* br_bit: [bit, st]
BrBit(st) ==
    IF st.bit_pos = 0 /\ st.byte_pos >= st.data_len
        THEN [bit |-> 0, st |-> st]
    ELSE LET s1 == IF st.bit_pos = 0
                       THEN [st EXCEPT !.cur = Rd(st.data, st.byte_pos),
                                       !.byte_pos = @ + 1,
                                       !.bit_pos = 8]
                       ELSE st
             s2 == [s1 EXCEPT !.bit_pos = @ - 1]
         IN [bit |-> (s2.cur \div (2^s2.bit_pos)) % 2, st |-> s2]

\* br_bits: the loop variables are x = [st, nbits, i, v]
BrBitsStep(x) ==
    LET b == BrBit(x.st)
    IN [x EXCEPT !.v = Add32(Shl1(x.v), b.bit), !.st = b.st, !.i = x.i + 1]

BrBitsCont(x) == x.i < x.nbits

RECURSIVE BrBitsLoop(_, _)
BrBitsLoop(x, left) ==
    IF left = 0 \/ ~BrBitsCont(x) THEN x
    ELSE IF left < 0 THEN BrBitsLoop(BrBitsLoop(x, StretchLen), -1)
    ELSE BrBitsLoop(BrBitsStep(x), left - 1)

\* br_bits(state, nbits): [v, st] (and the spent loop variables)
BrBits(st, nbits) ==
    BrBitsLoop([st |-> st, nbits |-> nbits, i |-> 0, v |-> 0], -1)

\* dwop_init
DwopInit(data, len) ==
    [data |-> data, data_len |-> len, byte_pos |-> 0, bit_pos |-> 0, cur |-> 0,
     S |-> <<0, 0, 0, 0, 0>>,
     e |-> [i \in 1..5 |-> DWOP_ENERGY_INIT],
     rv |-> 2, ba |-> 0]

\* MinEnergyFrom comparing the energies as int32_t
RECURSIVE MinEnergySignedFrom(_, _, _)
MinEnergySignedFrom(e, i, p) ==
    IF i >= 5 THEN p
    ELSE IF e[i + 1] < e[p + 1] THEN MinEnergySignedFrom(e, i + 1, i)
         ELSE MinEnergySignedFrom(e, i + 1, p)

\* step 1: the index (0..4) of the minimum energy under unsigned comparison,
\* the loop from index i on with the running minimum at index p
RECURSIVE MinEnergyFrom(_, _, _)
MinEnergyFrom(e, i, p) ==
    IF i >= 5 THEN p
    ELSE IF ULt(e[i + 1], e[p + 1]) THEN MinEnergyFrom(e, i + 1, i)
         ELSE MinEnergyFrom(e, i + 1, p)

MinEnergy(e) == MinEnergyFrom(e, 1, 0)

\* step 2: (min_e * 3 + 0x24) >> 7 in uint32_t
QuantStep(min_e) == Lshr(Add32(Add32(Add32(min_e, min_e), min_e), 36), 7)

\* the reader has no bit left: every further br_bit returns 0 and changes nothing
Exhausted(st) == st.bit_pos = 0 /\ st.byte_pos >= st.data_len

\* step 3, one iteration of the unary loop on x = [st, acc, cs, qc, uc, how]:
\* how becomes "one" at the break, "cap" at the return of ++uc >
\* DWOP_MAX_UNARY.  From an exhausted reader every further bit is 0 and the
\* reader no longer moves, so the loop can only leave through the cap: that
\* exit is taken at once (acc and cs are dead on it).
UnaryStep(x) ==
    IF Exhausted(x.st) THEN [x EXCEPT !.how = "cap"]
    ELSE LET b == BrBit(x.st)
         IN IF b.bit = 1 THEN [x EXCEPT !.st = b.st, !.how = "one"]
            ELSE [st  |-> b.st,
                  acc |-> Add32(x.acc, x.cs),
                  cs  |-> IF x.qc - 1 = 0 THEN Shl2(x.cs) ELSE x.cs,
                  qc  |-> IF x.qc - 1 = 0 THEN 7 ELSE x.qc - 1,
                  uc  |-> x.uc + 1,
                  how |-> IF x.uc + 1 > DWOP_MAX_UNARY THEN "cap" ELSE "run"]

UnaryCont(x) == x.how = "run"

RECURSIVE UnaryLoop(_, _)
UnaryLoop(x, left) ==
    IF left = 0 \/ ~UnaryCont(x) THEN x
    ELSE IF left < 0 THEN UnaryLoop(UnaryLoop(x, StretchLen), -1)
    ELSE UnaryLoop(UnaryStep(x), left - 1)

\* step 3, the unary loop: [how, st, acc, cs], how = "one" or "cap"
Unary(st, acc, cs, qc, uc) ==
    UnaryLoop([st |-> st, acc |-> acc, cs |-> cs, qc |-> qc, uc |-> uc,
           how |-> "run"], -1)

\* step 4, grow branch: while (cs >= rv) { rv <<= 1; if (!rv) return; nb++; }
\* on x = [cs, rv, nb, abort]
GrowStep(x) ==
    IF Shl1(x.rv) = 0 THEN [x EXCEPT !.rv = 0, !.abort = TRUE]
    ELSE [x EXCEPT !.rv = Shl1(x.rv), !.nb = x.nb + 1]

GrowCont(x) == ~x.abort /\ UGe(x.cs, x.rv)

RECURSIVE GrowLoop(_, _)
GrowLoop(x, left) ==
    IF left = 0 \/ ~GrowCont(x) THEN x
    ELSE IF left < 0 THEN GrowLoop(GrowLoop(x, StretchLen), -1)
    ELSE GrowLoop(GrowStep(x), left - 1)

Grow(cs, rv, nb) ==
    GrowLoop([cs |-> cs, rv |-> rv, nb |-> nb, abort |-> FALSE], -1)

\* ShrinkStep leaving nb alone
ShrinkStepKeepsNb(x) ==
    [x EXCEPT !.rv = x.t, !.t = Lshr(x.t, 1), !.brk = UGe(x.cs, Lshr(x.t, 1))]

\* step 4, shrink branch: for (;;) { rv = t; t >>= 1; nb--; if (cs >= t) break; }
\* on x = [cs, rv, t, nb, abort, brk]
ShrinkStep(x) ==
    [x EXCEPT !.rv = x.t, !.t = Lshr(x.t, 1), !.nb = x.nb - 1,
              !.brk = UGe(x.cs, Lshr(x.t, 1))]

ShrinkCont(x) == ~x.brk

RECURSIVE ShrinkLoop(_, _)
ShrinkLoop(x, left) ==
    IF left = 0 \/ ~ShrinkCont(x) THEN x
    ELSE IF left < 0 THEN ShrinkLoop(ShrinkLoop(x, StretchLen), -1)
    ELSE ShrinkLoop(ShrinkStep(x), left - 1)

Shrink(cs, t, nb) ==
    ShrinkLoop([cs |-> cs, rv |-> t, t |-> t, nb |-> nb, abort |-> FALSE,
           brk |-> FALSE], -1)

\* RangeAdapt starting every sample from a fresh bit budget
RangeAdaptFresh(cs, rv, ba) ==
    IF UGe(cs, rv) THEN Grow(cs, rv, 0) ELSE Shrink(cs, rv, 1)

RangeAdapt(cs, rv, ba) ==
    IF UGe(cs, rv) THEN Grow(cs, rv, ba) ELSE Shrink(cs, rv, ba + 1)

\* step 4, the remainder: [rem, st]
Remainder(st, cs, rv, nb) ==
    LET x  == IF nb > 0 THEN BrBits(st, nb) ELSE [v |-> 0, st |-> st]
        co == Sub32(rv, cs)
    IN IF ULt(x.v, co) THEN [rem |-> x.v, st |-> x.st]
       ELSE LET b == BrBit(x.st)
            IN [rem |-> Add32(Add32(co, Shl1(Sub32(x.v, co))), b.bit),
                st |-> b.st]

\* the zigzag that halves: (val >> 1) ^ -(val & 1)
ZigzagHalved(val) == IF val % 2 = 1 THEN Not32(Lshr(val, 1)) ELSE Lshr(val, 1)

\* step 5: d = (int32_t)(val ^ (uint32_t)(-(int32_t)(val & 1)))
Zigzag(val) == IF val % 2 = 1 THEN Not32(val) ELSE val

\* step 6, the switch: the index of S that receives d in the case of order
PredPos(order) ==
    CASE order = 0 -> 0
      [] order = 1 -> 1
      [] order = 4 -> 2
      [] order = 2 -> 3
      [] order = 3 -> 4

\* step 6: the new S[i] when d goes to S[p].  Below p each entry is
\* o[i] + S[i + 1], above p it is S[i - 1] - o[i - 1]; o is the snapshot.
RECURSIVE PredElem(_, _, _, _)
PredElem(o, d, p, i) ==
    IF i = p THEN d
    ELSE IF i < p THEN Add32(o[i + 1], PredElem(o, d, p, i + 1))
    ELSE Sub32(PredElem(o, d, p, i - 1), o[i])

\* PredUpdate storing d in its slot and leaving the other accumulators
PredUpdateSlotOnly(o, d, order) ==
    [i \in 1..5 |-> IF i - 1 = PredPos(order) THEN d ELSE o[i]]

\* step 6: the new S[0..4] for the remapped order, from the snapshot o
PredUpdate(o, d, order) == [i \in 1..5 |-> PredElem(o, d, PredPos(order), i - 1)]

\* some int32_t addition or subtraction of step 6 overflows
PredSov(o, d, order) ==
    \E i \in 0..4 :
        \/ i < PredPos(order)
           /\ AddOv(o[i + 1], PredElem(o, d, PredPos(order), i + 1))
        \/ i > PredPos(order)
           /\ SubOv(PredElem(o, d, PredPos(order), i - 1), o[i])

\* S ^ (S >> 31)
CheapAbs(s) == IF s < 0 THEN Not32(s) ELSE s

\* EnergyUpdate leaking a sixteenth of the energy per sample
EnergyUpdateFastLeak(e, S) ==
    [i \in 1..5 |-> Sub32(Add32(e[i], CheapAbs(S[i])), Lshr(e[i], 4))]

\* step 7: e[i] = e[i] + as - (int32_t)((uint32_t)e[i] >> 5)
EnergyUpdate(e, S) ==
    [i \in 1..5 |-> Sub32(Add32(e[i], CheapAbs(S[i])), Lshr(e[i], 5))]

\* some int32_t addition or subtraction of step 7 overflows
EnergySov(e, S) ==
    \E i \in 1..5 :
        \/ AddOv(e[i], CheapAbs(S[i]))
        \/ ~AddOv(e[i], CheapAbs(S[i]))
           /\ SubOv(e[i] + CheapAbs(S[i]), Lshr(e[i], 5))

\* One iteration of dwop_decode's for loop on state st:
\* [how, st, sample, sov], how = "ok" (out[n] written), "unary" (return n at
\* the unary cap) or "rvzero" (return n on rv overflowing to zero); sov says
\* that a signed addition of the iteration overflowed.
DwopDecodeSample(st) ==
    LET p_order == MinEnergy(st.e)
        \* steps 6-8 on the zigzag-decoded d and the new predictor state S1
        Store(r, g, d, ord, S1) ==
            [how |-> "ok",
             st |-> [r.st EXCEPT !.rv = g.rv, !.ba = g.nb, !.S = S1,
                                 !.e = EnergyUpdate(st.e, S1)],
             sample |-> Int16(Asr1(S1[1])),
             sov |-> PredSov(st.S, d, ord) \/ EnergySov(st.e, S1)]
        Predict(r, g, d, ord) == Store(r, g, d, ord, PredUpdate(st.S, d, ord))
        \* steps 4-5 on the remainder r
        Code(u, g, r) ==
            Predict(r, g, Zigzag(Add32(u.acc, r.rem)), PRED_MAP[p_order + 1])
        \* step 4 on the adapted range g
        Adapt(u, g) ==
            IF g.abort
                THEN [how |-> "rvzero", st |-> [u.st EXCEPT !.rv = 0],
                      sample |-> 0, sov |-> FALSE]
            ELSE Code(u, g, Remainder(u.st, u.cs, g.rv, g.nb))
        \* step 3 on the unary quotient u
        Quotient(u) ==
            IF u.how = "cap"
                THEN [how |-> "unary", st |-> u.st, sample |-> 0, sov |-> FALSE]
            ELSE Adapt(u, RangeAdapt(u.cs, u.st.rv, u.st.ba))
    IN Quotient(Unary(st, 0, QuantStep(st.e[p_order + 1]), 7, 0))

---------------------------------------------------------------------------
(* dwop.c: the stereo decoder *)

\* sbr_bit: [bit, br]
SbrBit(b) ==
    IF b.bit_pos = 0 /\ b.byte_pos >= b.data_len
        THEN [bit |-> 0, br |-> b]
    ELSE LET b1 == IF b.bit_pos = 0
                       THEN [b EXCEPT !.cur = Rd(b.data, b.byte_pos),
                                      !.byte_pos = @ + 1,
                                      !.bit_pos = 8]
                       ELSE b
             b2 == [b1 EXCEPT !.bit_pos = @ - 1]
         IN [bit |-> (b2.cur \div (2^b2.bit_pos)) % 2, br |-> b2]

\* sbr_bits: the loop variables are x = [br, nbits, i, v]
SbrBitsStep(x) ==
    LET b == SbrBit(x.br)
    IN [x EXCEPT !.v = Add32(Shl1(x.v), b.bit), !.br = b.br, !.i = x.i + 1]

RECURSIVE SbrBitsLoop(_, _)
SbrBitsLoop(x, left) ==
    IF left = 0 \/ ~BrBitsCont(x) THEN x
    ELSE IF left < 0 THEN SbrBitsLoop(SbrBitsLoop(x, StretchLen), -1)
    ELSE SbrBitsLoop(SbrBitsStep(x), left - 1)

\* sbr_bits(br, nbits): [v, br] (and the spent loop variables)
SbrBits(b, nbits) ==
    SbrBitsLoop([br |-> b, nbits |-> nbits, i |-> 0, v |-> 0], -1)

\* sch_init
SchInit ==
    [S |-> <<0, 0, 0, 0, 0>>, e |-> [i \in 1..5 |-> DWOP_ENERGY_INIT],
     rv |-> 2, ba |-> 0]

\* dwop_br_t br = {data, data_len, 0, 0, 0}
SbrInit(data, len) ==
    [data |-> data, data_len |-> len, byte_pos |-> 0, bit_pos |-> 0, cur |-> 0]

\* one iteration of the unary loop of stereo_decode_one on
\* x = [br, acc, cs, qc, uc, how]; an exhausted reader leaves through the
\* cap, as in UnaryStep
SUnaryStep(x) ==
    IF Exhausted(x.br) THEN [x EXCEPT !.how = "cap"]
    ELSE LET b == SbrBit(x.br)
         IN IF b.bit = 1 THEN [x EXCEPT !.br = b.br, !.how = "one"]
            ELSE [br  |-> b.br,
                  acc |-> Add32(x.acc, x.cs),
                  cs  |-> IF x.qc - 1 = 0 THEN Shl2(x.cs) ELSE x.cs,
                  qc  |-> IF x.qc - 1 = 0 THEN 7 ELSE x.qc - 1,
                  uc  |-> x.uc + 1,
                  how |-> IF x.uc + 1 > DWOP_MAX_UNARY THEN "cap" ELSE "run"]

RECURSIVE SUnaryLoop(_, _)
SUnaryLoop(x, left) ==
    IF left = 0 \/ ~UnaryCont(x) THEN x
    ELSE IF left < 0 THEN SUnaryLoop(SUnaryLoop(x, StretchLen), -1)
    ELSE SUnaryLoop(SUnaryStep(x), left - 1)

\* the unary loop of stereo_decode_one: [how, br, acc, cs]
SUnary(b, acc, cs, qc, uc) ==
    SUnaryLoop([br |-> b, acc |-> acc, cs |-> cs, qc |-> qc, uc |-> uc,
           how |-> "run"], -1)

\* SRemainder without the extra bit of the long codes
SRemainderShort(b, cs, rv, nb) ==
    LET x == IF nb > 0 THEN SbrBits(b, nb) ELSE [v |-> 0, br |-> b]
    IN [rem |-> x.v, br |-> x.br]

\* the remainder of stereo_decode_one: [rem, br]
SRemainder(b, cs, rv, nb) ==
    LET x  == IF nb > 0 THEN SbrBits(b, nb) ELSE [v |-> 0, br |-> b]
        co == Sub32(rv, cs)
    IN IF ULt(x.v, co) THEN [rem |-> x.v, br |-> x.br]
       ELSE LET y == SbrBit(x.br)
            IN [rem |-> Add32(Add32(co, Shl1(Sub32(x.v, co))), y.bit),
                br |-> y.br]

\* stereo_decode_one(ch, br): [how, ch, br, sample, sov]; on the unary cap and
\* on rv overflowing to zero it returns the sample 0 ("unary", "rvzero"), and
\* its caller goes on.  The range adaption, zigzag, predictor and energy
\* updates (lines 271-290 and 305-354) are the text of the mono loop.
StereoDecodeOne(ch, b) ==
    LET p_order == MinEnergy(ch.e)
        Store(r, g, d, ord, S1) ==
            [how |-> "ok",
             ch |-> [ch EXCEPT !.rv = g.rv, !.ba = g.nb, !.S = S1,
                               !.e = EnergyUpdate(ch.e, S1)],
             br |-> r.br,
             sample |-> Int16(Asr1(S1[1])),
             sov |-> PredSov(ch.S, d, ord) \/ EnergySov(ch.e, S1)]
        Predict(r, g, d, ord) == Store(r, g, d, ord, PredUpdate(ch.S, d, ord))
        Code(u, g, r) ==
            Predict(r, g, Zigzag(Add32(u.acc, r.rem)), PRED_MAP[p_order + 1])
        Adapt(u, g) ==
            IF g.abort
                THEN [how |-> "rvzero", ch |-> [ch EXCEPT !.rv = 0], br |-> u.br,
                      sample |-> 0, sov |-> FALSE]
            ELSE Code(u, g, SRemainder(u.br, u.cs, g.rv, g.nb))
        Quotient(u) ==
            IF u.how = "cap"
                THEN [how |-> "unary", ch |-> ch, br |-> u.br, sample |-> 0,
                      sov |-> FALSE]
            ELSE Adapt(u, RangeAdapt(u.cs, ch.rv, ch.ba))
    IN Quotient(SUnary(b, 0, QuantStep(ch.e[p_order + 1]), 7, 0))

---------------------------------------------------------------------------
(* Bounds and inputs of SpecDwop *)

MaxBytes == 2          \* longest payload drawn from ByteAlphabet
MaxZeroBytes == 12     \* longest run of leading zero bytes
MaxSamples == 3        \* largest max_samples / max_frames of a call

ByteAlphabet == {0, 1, 16, 165, 255}

RECURSIVE SeqsUpTo(_, _)
SeqsUpTo(S, k) ==
    IF k = 0 THEN {<<>>}
    ELSE LET T == SeqsUpTo(S, k - 1)
         IN T \cup {Append(t, x) : t \in {u \in T : Len(u) = k - 1}, x \in S}

ZeroBytes(k) == [i \in 1..k |-> 0]

\* 83 zero bits, the terminating 1, ext = 0x2000045 (27 bits), x = 0: the
\* first sample has val = 2^31 - 2
EnergyWrapInput == <<0, 0, 0, 0, 0, 0, 0, 0, 0, 0, 20, 0, 0, 138>>

\* two samples of 29 zero bits, the terminating 1 and ext = 0 (13 bits):
\* in stereo the frame has l = 25530 and delta = 25530
StereoWrapInput == <<0, 0, 0, 4, 0, 0, 0, 0, 0, 128, 0>>

\* 112 zero bits and the terminating 1: the sixteenth cs <<= 2 of the unary
\* loop shifts the last bit of cs out, so the range coder is entered with
\* cs = 0
ShrinkZeroInput == ZeroBytes(14) \o <<255>>

\* three samples each; after the first two the minimum energy is in slot 1,
\* 2, 3 and 4
RemapInputs ==
    {<<0, 64, 0, 165, 255>>, <<1, 0, 3, 165, 255>>, <<1, 2, 0, 165, 255>>,
     <<2, 0, 2, 165, 255>>}

\* EnergyWrapInput and two more samples: after the second some energies have
\* wrapped to negative int32_t values and others have not
MixedSignInput == EnergyWrapInput \o <<255, 255, 255, 255, 255, 255>>

\* 80 zero bits, the terminating 1, ext = 53126678 (27 bits), x = 0: the
\* first sample has val = 1431653280 and leaves every energy at 1431655760
\* with no overflow, and 3 * 1431655760 + 0x24 is 2^32 + 20
StepZeroInput == ZeroBytes(10) \o <<178, 170, 97, 96>>

\* silence: every sample is a 1 bit and nb zero bits, val = 0; the energies
\* leak from 2560 down to 31, reached with sample 156
SilenceInput ==
    <<130, 8, 32, 130, 8, 32, 130, 8, 32, 130, 8, 32, 130, 8, 32, 130, 16,
      132, 33, 8, 66, 16, 132, 33, 8, 66, 16, 132, 33, 8, 136, 136, 136, 136,
      136, 136, 136, 136, 136, 136, 136, 146, 73, 36, 146, 73, 36, 146, 73,
      36, 149, 85, 85, 85, 85, 85, 85, 87, 255, 255, 255, 255, 255>>

SilenceSamples == 157    \* samples asked of dwop_decode on SilenceInput

DwopInputs ==
    SeqsUpTo(ByteAlphabet, MaxBytes)
    \cup {ZeroBytes(k) \o <<x>> : k \in 0..MaxZeroBytes, x \in ByteAlphabet}
    \cup {EnergyWrapInput, StereoWrapInput, ShrinkZeroInput, MixedSignInput,
          StepZeroInput}
    \cup RemapInputs

---------------------------------------------------------------------------
(* dwop.c: the decode loops run to their return, as decode_sdat calls them *)

\* one iteration of dwop_decode's for loop on x = [st, n, max, sov, how]
DwopDecodeStep(x) ==
    LET Iterate(r) ==
            IF r.how = "ok"
                THEN [x EXCEPT !.st = r.st, !.n = x.n + 1,
                               !.sov = x.sov \/ r.sov]
            ELSE [x EXCEPT !.st = r.st, !.how = r.how]
    IN Iterate(DwopDecodeSample(x.st))

DwopDecodeCont(x) == x.how = "ok" /\ x.n < x.max

RECURSIVE DwopDecodeLoop(_, _)
DwopDecodeLoop(x, left) ==
    IF left = 0 \/ ~DwopDecodeCont(x) THEN x
    ELSE IF left < 0 THEN DwopDecodeLoop(DwopDecodeLoop(x, StretchLen), -1)
    ELSE DwopDecodeLoop(DwopDecodeStep(x), left - 1)

\* dwop_decode(state, out, max_samples): [n, st, sov], n the value returned
DwopDecode(st, max) ==
    DwopDecodeLoop([st |-> st, n |-> 0, max |-> max, sov |-> FALSE, how |-> "ok"], -1)

\* one frame of dwop_decode_stereo on x = [br, L, R, n, max, sov].  No return
\* value of stereo_decode_one leaves the loop; once the reader is exhausted
\* every further call returns 0 at the unary cap and changes nothing, so the
\* remaining frames are taken at once.
DwopDecodeStereoStep(x) ==
    LET Frame(l, r) ==
            [x EXCEPT !.br = r.br, !.L = l.ch, !.R = r.ch, !.n = x.n + 1,
                      !.sov = x.sov \/ l.sov \/ r.sov]
        Left(l) == Frame(l, StereoDecodeOne(x.R, l.br))
    IN IF Exhausted(x.br) THEN [x EXCEPT !.n = x.max]
       ELSE Left(StereoDecodeOne(x.L, x.br))

DwopDecodeStereoCont(x) == x.n < x.max

RECURSIVE DwopDecodeStereoLoop(_, _)
DwopDecodeStereoLoop(x, left) ==
    IF left = 0 \/ ~DwopDecodeStereoCont(x) THEN x
    ELSE IF left < 0 THEN DwopDecodeStereoLoop(DwopDecodeStereoLoop(x, StretchLen), -1)
    ELSE DwopDecodeStereoLoop(DwopDecodeStereoStep(x), left - 1)

\* dwop_decode_stereo(data, data_len, out, max_frames): [n, br, sov]
DwopDecodeStereo(data, len, max_frames) ==
    DwopDecodeStereoLoop([br |-> SbrInit(data, len), L |-> SchInit, R |-> SchInit, n |-> 0,
           max |-> max_frames, sov |-> FALSE], -1)

---------------------------------------------------------------------------
(* size_t: [hi, lo] of value hi * 2^31 + lo, 0 <= lo < 2^31 *)

Sz(k) == [hi |-> 0, lo |-> k]

\* a + k for a natural k < 2^31
SzAdd(a, k) ==
    IF a.lo > MaxInt32 - k
        THEN [hi |-> a.hi + 1, lo |-> a.lo - (MaxInt32 - k) - 1]
    ELSE [hi |-> a.hi, lo |-> a.lo + k]

\* a + w for a uint32_t word w
SzAddU32(a, w) ==
    IF w >= 0 THEN SzAdd(a, w)
    ELSE SzAdd([hi |-> a.hi + 1, lo |-> a.lo], (w + MaxInt32) + 1)

SzLe(a, b) == a.hi < b.hi \/ (a.hi = b.hi /\ a.lo <= b.lo)

---------------------------------------------------------------------------
(* rex_parser.h / rex_parser.c: the record and the chunk handlers *)

REX_MAX_SLICES == 256
MAX_FRAMES_CAP == 10000000

NULL == [null |-> TRUE]

\* memset(rex, 0, sizeof(*rex)); slices holds the entries written so far, the
\* rest of the array is zero
RexZero ==
    [tempo_bpm |-> [num |-> 0, den |-> 1000], bars |-> 0, beats |-> 0,
     time_sig_num |-> 0, time_sig_den |-> 0,
     sample_rate |-> 0, channels |-> 0, bytes_per_sample |-> 0,
     slice_count |-> 0, slices |-> <<>>,
     pcm_data |-> NULL, pcm_samples |-> 0, pcm_channels |-> 0,
     total_sample_length |-> 0, error |-> ""]

\* read_u32_be(p + i), p the mapped bytes d
ReadU32BE(d, i) ==
    LET b0 == Rd(d, i)
    IN (IF b0 >= 128 THEN b0 - 256 ELSE b0) * 16777216
       + Rd(d, i + 1) * 65536 + Rd(d, i + 2) * 256 + Rd(d, i + 3)

\* read_u16_be(p + i)
ReadU16BE(d, i) == Rd(d, i) * 256 + Rd(d, i + 1)

\* tag_match(p + i, tag), tag a sequence of 4 bytes
TagMatch(d, i, tag) == \A k \in 0..3 : Rd(d, i + k) = tag[k + 1]

TagCAT  == <<67, 65, 84, 32>>
TagGLOB == <<71, 76, 79, 66>>
TagHEAD == <<72, 69, 65, 68>>
TagSINF == <<83, 73, 78, 70>>
TagSLCE == <<83, 76, 67, 69>>
TagSDAT == <<83, 68, 65, 84>>

\* parse_glob; tempo_bpm is kept as the exact quotient num / den
ParseGlob(r, d, len) ==
    IF ULt(len, 20) THEN r
    ELSE [r EXCEPT !.bars = ReadU16BE(d, 4),
                   !.beats = Rd(d, 6),
                   !.time_sig_num = Rd(d, 7),
                   !.time_sig_den = Rd(d, 8),
                   !.tempo_bpm = [num |-> ReadU32BE(d, 16), den |-> 1000]]

\* ParseHead without the test of the length
ParseHeadAnyLength(r, d, len) == [r EXCEPT !.bytes_per_sample = Rd(d, 5)]

\* parse_head
ParseHead(r, d, len) ==
    IF ULt(len, 6) THEN r ELSE [r EXCEPT !.bytes_per_sample = Rd(d, 5)]

\* parse_sinf
ParseSinf(r, d, len) ==
    IF ULt(len, 10) THEN r
    ELSE LET ch == Rd(d, 0)
             sr == ReadU16BE(d, 4)
         IN [r EXCEPT !.channels = IF ch = 1 \/ ch = 2 THEN ch ELSE @,
                      !.sample_rate = IF sr > 0 THEN sr ELSE @,
                      !.total_sample_length = ReadU32BE(d, 6)]

\* rex->slices[i] = s
SetSlice(slices, i, s) ==
    IF i < Len(slices) THEN [slices EXCEPT ![i + 1] = s] ELSE Append(slices, s)

\* ParseSlce without the test of slice_count against REX_MAX_SLICES
ParseSlceUncapped(r, d, len) ==
    IF ULt(len, 8) THEN r
    ELSE IF ~ULt(1, ReadU32BE(d, 4)) THEN r
    ELSE [r EXCEPT !.slices = SetSlice(@, r.slice_count,
                                 [sample_offset |-> ReadU32BE(d, 0),
                                  sample_length |-> ReadU32BE(d, 4)]),
                   !.slice_count = @ + 1]

\* ParseSlce without the test that drops transient markers
ParseSlceKeepsMarkers(r, d, len) ==
    IF ULt(len, 8) THEN r
    ELSE IF r.slice_count >= REX_MAX_SLICES THEN r
    ELSE [r EXCEPT !.slices = SetSlice(@, r.slice_count,
                                 [sample_offset |-> ReadU32BE(d, 0),
                                  sample_length |-> ReadU32BE(d, 4)]),
                   !.slice_count = @ + 1]

\* parse_slce
ParseSlce(r, d, len) ==
    IF ULt(len, 8) THEN r
    ELSE IF r.slice_count >= REX_MAX_SLICES THEN r
    ELSE LET offset     == ReadU32BE(d, 0)
             sample_len == ReadU32BE(d, 4)
         IN IF ~ULt(1, sample_len) THEN r
            ELSE [r EXCEPT !.slices = SetSlice(@, r.slice_count,
                                         [sample_offset |-> offset,
                                          sample_length |-> sample_len]),
                           !.slice_count = @ + 1]

\* MaxFrames without the cap of lines 144-146
MaxFramesUnclamped(total, len) ==
    IF total # 0 THEN total ELSE Add32(Shl1(len), 1024)

\* decode_sdat, the frame budget (lines 136-146): (int)total_sample_length
\* or (int)(len * 2) + 1024, capped
MaxFrames(total, len) ==
    LET max_frames == IF total # 0 THEN total ELSE Add32(Shl1(len), 1024)
    IN IF max_frames > MAX_FRAMES_CAP THEN MAX_FRAMES_CAP ELSE max_frames

\* SdatDecoded keeping the block when nothing was decoded
SdatDecodedLeak(r1, dec, info) ==
    [rex |-> IF r1.pcm_samples <= 0
                 THEN [r1 EXCEPT !.error = "DWOP decode produced no samples"]
             ELSE r1,
     ret |-> IF r1.pcm_samples <= 0 THEN -1 ELSE 0,
     info |-> info, malloced |-> TRUE, freed |-> FALSE,
     read |-> dec.read, sov |-> dec.sov]

\* decode_sdat from the decoder's return on (lines 167-174), r1 the record
\* with pcm_data, pcm_samples and pcm_channels stored and dec = [n, read, sov]
\* what the decoder did
SdatDecoded(r1, dec, info) ==
    IF r1.pcm_samples <= 0
        THEN [rex |-> [r1 EXCEPT !.pcm_data = NULL,
                                 !.error = "DWOP decode produced no samples"],
              ret |-> -1, info |-> info, malloced |-> TRUE, freed |-> TRUE,
              read |-> dec.read, sov |-> dec.sov]
    ELSE [rex |-> r1, ret |-> 0, info |-> info, malloced |-> TRUE,
          freed |-> FALSE, read |-> dec.read, sov |-> dec.sov]

\* decode_sdat(rex, data, len) with malloc succeeding iff malloc_ok:
\* [rex, ret, info, malloced, freed, read, sov]; info holds the call's locals
\* (budgeted: the frame budget of lines 136-146 was computed), read is the
\* reader's final byte_pos, malloced/freed say whether a block was obtained
\* and whether it was freed again, sov that a signed addition overflowed.
\* pcm_data is [frames, mult, written]: a block of (size_t)frames * mult
\* elements of which the first written were stored.  A negative max_frames
\* converts to a size_t of 2^63 or more, which no malloc grants.
DecodeSdat(r, d, len, malloc_ok) ==
    LET total == r.total_sample_length
        max_frames == MaxFrames(total, len)
        is_stereo == (r.channels = 2)
        chs == IF is_stereo THEN 2 ELSE 1
        bsov == (total = 0 /\ AddOv(Shl1(len), 1024))
        info == [called |-> TRUE, budgeted |-> TRUE, len |-> len,
                 total |-> total, max_frames |-> max_frames,
                 is_stereo |-> is_stereo, malloc_ok |-> malloc_ok]
        Stereo(x) ==
            [n |-> x.n, read |-> x.br.byte_pos, sov |-> x.sov \/ bsov]
        Mono(x) ==
            [n |-> x.n, read |-> x.st.byte_pos, sov |-> x.sov \/ bsov]
        Stored(dec) ==
            SdatDecoded([r EXCEPT !.pcm_data = [null |-> FALSE,
                                                frames |-> max_frames,
                                                mult |-> chs,
                                                written |-> dec.n * chs],
                                  !.pcm_samples = dec.n,
                                  !.pcm_channels = chs],
                        dec, info)
    IN IF len = 0
           THEN [rex |-> [r EXCEPT !.error = "SDAT chunk empty"], ret |-> -1,
                 info |-> [info EXCEPT !.budgeted = FALSE], malloced |-> FALSE,
                 freed |-> FALSE, read |-> 0, sov |-> FALSE]
       ELSE IF ~malloc_ok \/ max_frames < 0
           THEN [rex |-> [r EXCEPT !.pcm_data = NULL,
                                   !.error = "Failed to allocate samples"],
                 ret |-> -1, info |-> info, malloced |-> FALSE,
                 freed |-> FALSE, read |-> 0, sov |-> bsov]
       ELSE IF is_stereo
           THEN Stored(Stereo(DwopDecodeStereo(d, len, max_frames)))
       ELSE Stored(Mono(DwopDecode(DwopInit(d, len), max_frames)))

\* SdatWanted without the test
SdatWantedAlways(decoded) == TRUE

\* the SDAT branch's test if (!*sdat_decoded) (line 214)
SdatWanted(decoded) == ~decoded

\* clamp_slice_lengths, one slice
ClampSlice(s, pcm_samples) ==
    IF Add32(s.sample_offset, s.sample_length) > pcm_samples
        THEN IF s.sample_offset >= pcm_samples
                 THEN [s EXCEPT !.sample_length = 0]
             ELSE [s EXCEPT !.sample_length = Sub32(pcm_samples, s.sample_offset)]
    ELSE s

\* ClampSliceLengths replaced by lengths computed from the gap to the next
\* slice offset, the last slice running to the end of the audio
GapSliceLengths(r) ==
    [r EXCEPT !.slices = [i \in 1..Len(r.slices) |->
        [r.slices[i] EXCEPT !.sample_length =
            IF i < r.slice_count
                THEN Sub32(r.slices[i + 1].sample_offset, r.slices[i].sample_offset)
            ELSE Sub32(r.pcm_samples, r.slices[i].sample_offset)]]]

\* clamp_slice_lengths
ClampSliceLengths(r) ==
    [r EXCEPT !.slices = [i \in 1..Len(r.slices) |->
                             IF i <= r.slice_count
                                 THEN ClampSlice(r.slices[i], r.pcm_samples)
                             ELSE r.slices[i]]]

\* RexFree leaving the pointer in place
RexFreeKeepsPointer(r) ==
    [r EXCEPT !.pcm_samples = 0, !.slice_count = 0]

\* rex_free
RexFree(r) ==
    [r EXCEPT !.pcm_data = NULL, !.pcm_samples = 0, !.slice_count = 0]

\* WholeSlice one sample short
WholeSliceShort(pcm_samples) ==
    [sample_offset |-> 0, sample_length |-> pcm_samples - 1]

\* the fallback slice of rex_parse (lines 274-275)
WholeSlice(pcm_samples) ==
    [sample_offset |-> 0, sample_length |-> pcm_samples]

\* rex_parse from the return of parse_chunks on (lines 263-287): [rex, ret]
RexParseTail(r, decoded) ==
    IF ~decoded \/ r.pcm_data = NULL
        THEN [rex |-> IF r.error = ""
                          THEN [r EXCEPT !.error = "No audio data found in file"]
                      ELSE r,
              ret |-> -1]
    ELSE IF r.slice_count = 0
        THEN IF r.pcm_samples > 0
                 THEN [rex |-> ClampSliceLengths(
                                  [r EXCEPT !.slices = SetSlice(@, 0,
                                               WholeSlice(r.pcm_samples)),
                                            !.slice_count = 1]),
                       ret |-> 0]
             ELSE [rex |-> RexFree([r EXCEPT !.error = "No slices found in file"]),
                   ret |-> -1]
    ELSE [rex |-> ClampSliceLengths(r), ret |-> 0]

---------------------------------------------------------------------------
(* Bounds and inputs of Spec: REX2 files as bytes *)

MaxChunks == 2         \* chunks drawn from ChunkMenu inside the root CAT
MaxExtraSlices == 2    \* SLCE chunks past REX_MAX_SLICES in the long file
MaxTail == 16          \* mapped bytes after the buffer, when there are any

\* the four bytes of the word w, big-endian
BE32(w) ==
    <<(w \div 16777216) % 256, (w \div 65536) % 256, (w \div 256) % 256, w % 256>>

BE16(h) == <<(h \div 256) % 256, h % 256>>

\* a chunk with the length field lenword and the bytes body after it
Chunk(tag, lenword, body) == tag \o BE32(lenword) \o body

\* a well-formed chunk: the length of its payload, the pad byte if it is odd
WChunk(tag, payload) ==
    Chunk(tag, Len(payload),
          IF Len(payload) % 2 = 1 THEN payload \o <<0>> ELSE payload)

FormREX2 == <<82, 69, 88, 50>>
TagJUNK  == <<74, 85, 78, 75>>

\* a root CAT holding the chunks body
RootCat(body) == Chunk(TagCAT, 4 + Len(body), FormREX2 \o body)

Sinf(ch, sr, total) ==
    WChunk(TagSINF, <<ch, 3, 0, 0>> \o BE16(sr) \o BE32(total))

Slce(offset, len) ==
    WChunk(TagSLCE, BE32(offset) \o BE32(len) \o <<127, 255, 0>>)

Sdat(payload) == WChunk(TagSDAT, payload)

GlobChunk == WChunk(TagGLOB, <<0, 0, 0, 0, 0, 2, 4, 4, 4, 0, 0, 0, 0, 0, 0, 0>>
                             \o BE32(120000))

HeadChunk == WChunk(TagHEAD, <<0, 0, 0, 0, 0, 2>>)

ChunkMenu ==
    { Sinf(2, 44100, 20000000),       \* stereo, budget over the cap
      Sinf(1, 0, 2),                  \* mono, two frames, sample rate 0
      Sinf(3, 22050, MinInt32),       \* bad channel byte, total 0x80000000
      WChunk(TagSINF, <<2, 3>>),      \* too short
      Slce(0, 1),                     \* transient marker
      Slce(1, 5),
      Slce(9, 3),
      Slce(-1, 2),                    \* offset 0xFFFFFFFF
      Slce(0, MinInt32),              \* length 0x80000000
      Sdat(<<>>),                     \* empty
      Sdat(<<0>>),                    \* decodes no sample (mono)
      Sdat(<<165, 195>>),
      Sdat(<<255>>),
      GlobChunk,
      HeadChunk,
      WChunk(TagJUNK, <<1, 2, 3>>),
      WChunk(TagCAT, FormREX2 \o Slce(2, 2) \o Sdat(<<255, 255>>)),
      Chunk(TagSINF, -1, <<>>),       \* length 0xFFFFFFFF
      Chunk(TagSDAT, -1, <<>>),
      Chunk(TagCAT, -1, <<>>) }

RECURSIVE Concat(_)
Concat(ss) == IF ss = <<>> THEN <<>> ELSE Head(ss) \o Concat(Tail(ss))

\* the sequence s repeated k times
Repeat(s, k) == [i \in 1..(k * Len(s)) |-> s[((i - 1) % Len(s)) + 1]]

\* more SLCE chunks than the slice array holds, then the audio
LongFile(k) == RootCat(Repeat(Slce(0, 2), k) \o Sdat(<<165, 195>>))

\* GLOB, HEAD, SINF and SLCE chunks one even byte count short of the least
\* their handlers accept, whose bytes would change the record if they were
\* read, and a chunk of an unknown tag; then a SINF with a bad channel byte
\* and the sample rate 0, a slice and the audio
ShortChunksFile ==
    RootCat(WChunk(TagGLOB, <<0, 0, 0, 0, 0, 2, 4, 4, 4, 0, 0, 0, 0, 0, 0, 0, 0, 1>>)
            \o WChunk(TagHEAD, <<0, 0, 0, 0>>)
            \o WChunk(TagSINF, <<2, 3, 0, 0, 86, 34, 0, 0>>)
            \o WChunk(TagSLCE, BE32(0) \o <<0, 0>>)
            \o WChunk(TagJUNK, <<1, 2, 3>>)
            \o Sinf(3, 0, 2) \o Slce(0, 2) \o Sdat(<<165, 195>>))

MalformedFiles ==
    { TagCAT \o BE32(4),                                  \* 8 bytes
      <<70, 79, 82, 77>> \o BE32(4) \o FormREX2,          \* no CAT tag
      Chunk(TagCAT, 100, FormREX2 \o Sdat(<<255>>)),      \* CAT overruns the file
      RootCat(TagSDAT \o BE32(5) \o <<165, 195, 0, 0>>) } \* SDAT overruns the CAT

Files ==
    {RootCat(Concat(cs)) : cs \in SeqsUpTo(ChunkMenu, MaxChunks)}
    \cup MalformedFiles
    \cup {LongFile(REX_MAX_SLICES + MaxExtraSlices), ShortChunksFile}
    \cup {RootCat(Sinf(1, 44100, 2) \o Slce(1, 5) \o Sdat(<<165, 195>>) \o Slce(0, 1))}

\* what lies mapped behind the buffer: nothing, or MaxTail zero bytes
Tails == {<<>>, ZeroBytes(MaxTail)}

---------------------------------------------------------------------------
(* Spec: rex_parse, one action per step of the walk *)

NoCall == [called |-> FALSE, budgeted |-> FALSE, len |-> 0, total |-> 0,
           max_frames |-> 0, is_stereo |-> FALSE, malloc_ok |-> FALSE]

NoPass == [done |-> FALSE, ret |-> 0, pcm_samples |-> 0, refused |-> FALSE]

NoSample == [ch |-> "none", how |-> "none", sample |-> 0]

\* a signed overflow of the decoder either wraps or traps
Traps(sov) == IF sov THEN BOOLEAN ELSE {FALSE}

DwopIdle ==
    /\ mode = "idle"
    /\ state = DwopInit(<<>>, 0)
    /\ br = SbrInit(<<>>, 0)
    /\ L = SchInit
    /\ R = SchInit
    /\ out = <<>>
    /\ n = 0
    /\ max_samples = 0
    /\ dpc = "idle"
    /\ last = NoSample

DwvwIdle ==
    /\ wx = [st |-> <<>>]
    /\ wpc = "idle"
    /\ wcalls = <<>>

PluginIdle ==
    /\ inst = <<>>
    /\ pcall = <<>>
    /\ pcount = <<>>

\* what a step of rex_parse leaves alone
ParseFrame == UNCHANGED <<first, frees, dwopVars, dwvwVars, pluginVars>>

\* decode_sdat asked malloc for a block and got NULL
Refused(call) == call.budgeted /\ ~call.malloc_ok

Init ==
    /\ \E f \in Files, t \in Tails :
           /\ mem = f \o t
           /\ data_len = Len(f)
    /\ rex = RexZero
    /\ pc = "entry"
    /\ stack = <<>>
    /\ sdat_decoded = FALSE
    /\ ret = 0
    /\ live = 0
    /\ oob = FALSE
    /\ past_boundary = FALSE
    /\ slce_seen = <<>>
    /\ sdat_seen = 0
    /\ sdat_call = NoCall
    /\ refused = FALSE
    /\ first = NoPass
    /\ frees = 0
    /\ DwopIdle
    /\ DwvwIdle
    /\ PluginIdle

\* RexDefaults without the two assignments after the memset
RexDefaultsAllZero == RexZero

\* memset and the defaults (lines 244-247)
RexDefaults == [RexZero EXCEPT !.sample_rate = 44100, !.channels = 1]

\* rex_parse returning -1 before the walk (lines 249-258)
RexParseReject ==
    /\ pc = "entry"
    /\ data_len < 12 \/ ~TagMatch(mem, 0, TagCAT)
    /\ rex' = [RexDefaults EXCEPT !.error =
                  IF data_len < 12 THEN "File too small"
                  ELSE "Not an IFF file (no CAT header)"]
    /\ ret' = -1
    /\ pc' = "returned"
    /\ UNCHANGED <<mem, data_len, stack, sdat_decoded, live, oob, past_boundary,
                   slce_seen, sdat_seen, sdat_call, refused>>
    /\ ParseFrame

\* rex_parse entering parse_chunks(rex, data, data_len, 0, &sdat_decoded)
RexParseBegin ==
    /\ pc = "entry"
    /\ data_len >= 12
    /\ TagMatch(mem, 0, TagCAT)
    /\ rex' = RexDefaults
    /\ sdat_decoded' = FALSE
    /\ stack' = <<[boundary |-> Sz(data_len), offset |-> Sz(0)]>>
    /\ pc' = "walk"
    /\ UNCHANGED <<mem, data_len, ret, live, oob, past_boundary, slce_seen,
                   sdat_seen, sdat_call, refused>>
    /\ ParseFrame

\* the innermost activation of parse_chunks and its current chunk
Top == stack[Len(stack)]
Off == Top.offset.lo

\* while (offset + 8 <= boundary)
InLoop(f) == SzLe(SzAdd(f.offset, 8), f.boundary)

\* the 8 bytes of the chunk header are mapped memory
HeaderMapped(f) == f.offset.hi = 0 /\ f.offset.lo <= Len(mem) - 8

ChunkLen(f) == ReadU32BE(mem, f.offset.lo + 4)

\* uint32_t padded_len = chunk_len; if (padded_len % 2 == 1) padded_len++;
PaddedLen(f) ==
    IF ChunkLen(f) % 2 = 1 THEN Add32(ChunkLen(f), 1) ELSE ChunkLen(f)

\* offset + 8 + padded_len
ChunkEnd(f) == SzAddU32(SzAdd(f.offset, 8), PaddedLen(f))

\* !(offset + 8 + padded_len > boundary)
Fits(f) == SzLe(ChunkEnd(f), f.boundary)

\* the loop body has reached the tag dispatch of a chunk
InChunk == pc = "walk" /\ InLoop(Top) /\ HeaderMapped(Top) /\ Fits(Top)

AtChunk(tag) == InChunk /\ TagMatch(mem, Off, tag)

\* chunk_data = data + offset + 8: the mapped bytes from there on
ChunkData == SubSeq(mem, Off + 9, Len(mem))

\* k bytes from chunk_data on are mapped memory
PayloadMapped(k) == Off + 8 + k <= Len(mem)

\* offset += 8 + padded_len
Advanced(stk) == [stk EXCEPT ![Len(stk)].offset = ChunkEnd(stk[Len(stk)])]

\* the header read, or a read of k > 0 payload bytes, leaves the buffer
ReadsPastBuffer(k) == Off + 8 > data_len \/ (k > 0 /\ Off + 8 + k > data_len)

\* the payload handed to a handler, [offset + 8, offset + 8 + chunk_len),
\* ends past the boundary
HandedPastBoundary ==
    ~SzLe(SzAddU32(SzAdd(Top.offset, 8), ChunkLen(Top)), Top.boundary)

\* the bytes a handler reads of its payload
GlobExtent == IF ULt(ChunkLen(Top), 20) THEN 0 ELSE 20
HeadExtent == IF ULt(ChunkLen(Top), 6) THEN 0 ELSE 6
SinfExtent == IF ULt(ChunkLen(Top), 10) THEN 0 ELSE 10
SlceExtent ==
    IF ULt(ChunkLen(Top), 8) \/ rex.slice_count >= REX_MAX_SLICES THEN 0 ELSE 8

\* frame for the walking steps that touch only the record and the offset
WalkFrame ==
    /\ UNCHANGED <<mem, data_len, sdat_decoded, ret, live, sdat_seen, sdat_call,
                   refused>>
    /\ ParseFrame

\* CAT: recurse into the container (lines 198-204); the recursive call returns
\* through WalkReturn, which advances this activation
WalkCat ==
    /\ AtChunk(TagCAT)
    /\ IF UGe(ChunkLen(Top), 4)
           THEN stack' = Append(stack,
                    [boundary |-> SzAddU32(SzAdd(Top.offset, 8), ChunkLen(Top)),
                     offset   |-> SzAdd(Top.offset, 12)])
       ELSE stack' = Advanced(stack)
    /\ oob' = (oob \/ ReadsPastBuffer(0))
    /\ past_boundary' = (past_boundary \/ HandedPastBoundary)
    /\ UNCHANGED <<rex, pc, slce_seen>>
    /\ WalkFrame

WalkGlob ==
    /\ AtChunk(TagGLOB)
    /\ PayloadMapped(GlobExtent)
    /\ rex' = ParseGlob(rex, ChunkData, ChunkLen(Top))
    /\ stack' = Advanced(stack)
    /\ oob' = (oob \/ ReadsPastBuffer(GlobExtent))
    /\ past_boundary' = (past_boundary \/ HandedPastBoundary)
    /\ UNCHANGED <<pc, slce_seen>>
    /\ WalkFrame

WalkHead ==
    /\ AtChunk(TagHEAD)
    /\ PayloadMapped(HeadExtent)
    /\ rex' = ParseHead(rex, ChunkData, ChunkLen(Top))
    /\ stack' = Advanced(stack)
    /\ oob' = (oob \/ ReadsPastBuffer(HeadExtent))
    /\ past_boundary' = (past_boundary \/ HandedPastBoundary)
    /\ UNCHANGED <<pc, slce_seen>>
    /\ WalkFrame

WalkSinf ==
    /\ AtChunk(TagSINF)
    /\ PayloadMapped(SinfExtent)
    /\ rex' = ParseSinf(rex, ChunkData, ChunkLen(Top))
    /\ stack' = Advanced(stack)
    /\ oob' = (oob \/ ReadsPastBuffer(SinfExtent))
    /\ past_boundary' = (past_boundary \/ HandedPastBoundary)
    /\ UNCHANGED <<pc, slce_seen>>
    /\ WalkFrame

\* SLCE; slce_seen records the offset and length fields of every SLCE chunk
\* of 8 bytes or more, kept or not
WalkSlce ==
    /\ AtChunk(TagSLCE)
    /\ PayloadMapped(SlceExtent)
    /\ rex' = ParseSlce(rex, ChunkData, ChunkLen(Top))
    /\ stack' = Advanced(stack)
    /\ oob' = (oob \/ ReadsPastBuffer(SlceExtent))
    /\ past_boundary' = (past_boundary \/ HandedPastBoundary)
    /\ slce_seen' = IF UGe(ChunkLen(Top), 8) /\ PayloadMapped(8)
                        THEN Append(slce_seen,
                                 [sample_offset |-> ReadU32BE(ChunkData, 0),
                                  sample_length |-> ReadU32BE(ChunkData, 4)])
                    ELSE slce_seen
    /\ UNCHANGED pc
    /\ WalkFrame

\* SDAT (lines 213-219): decode_sdat unless an SDAT was decoded before.  malloc
\* may fail; a signed overflow inside the decoder either wraps or traps.
WalkSdat ==
    LET Decoded(r) ==
            /\ PayloadMapped(r.read)
            /\ rex' = r.rex
            /\ sdat_decoded' = (r.ret = 0)
            /\ live' = live + (IF r.malloced THEN 1 ELSE 0)
                            - (IF r.freed THEN 1 ELSE 0)
            /\ sdat_call' = r.info
            /\ refused' = (refused \/ Refused(r.info))
            /\ oob' = (oob \/ ReadsPastBuffer(r.read))
            /\ \E trap \in Traps(r.sov) :
                   IF trap
                       THEN pc' = "trap" /\ stack' = stack
                   ELSE pc' = pc /\ stack' = Advanced(stack)
    IN /\ AtChunk(TagSDAT)
       /\ sdat_seen' = sdat_seen + 1
       /\ past_boundary' = (past_boundary \/ HandedPastBoundary)
       /\ IF ~SdatWanted(sdat_decoded)
              THEN /\ stack' = Advanced(stack)
                   /\ oob' = (oob \/ ReadsPastBuffer(0))
                   /\ UNCHANGED <<rex, pc, sdat_decoded, live, sdat_call, refused>>
          ELSE \E malloc_ok \in BOOLEAN :
                   Decoded(DecodeSdat(rex, ChunkData, ChunkLen(Top), malloc_ok))
       /\ UNCHANGED <<mem, data_len, ret, slce_seen>>
       /\ ParseFrame

\* a tag that is none of the six: the chunk is skipped
WalkSkip ==
    /\ InChunk
    /\ \A tag \in {TagCAT, TagGLOB, TagHEAD, TagSINF, TagSLCE, TagSDAT} :
           ~TagMatch(mem, Off, tag)
    /\ stack' = Advanced(stack)
    /\ oob' = (oob \/ ReadsPastBuffer(0))
    /\ UNCHANGED <<rex, pc, past_boundary, slce_seen>>
    /\ WalkFrame

\* parse_chunks returns: the loop condition fails, or the chunk does not fit
\* (break).  The caller is rex_parse, or the CAT branch of the activation
\* below, which then advances past its CAT chunk.
WalkReturn ==
    /\ pc = "walk"
    /\ ~InLoop(Top) \/ (HeaderMapped(Top) /\ ~Fits(Top))
    /\ oob' = (oob \/ (InLoop(Top) /\ ReadsPastBuffer(0)))
    /\ IF Len(stack) = 1
           THEN stack' = <<>> /\ pc' = "post"
       ELSE stack' = Advanced(SubSeq(stack, 1, Len(stack) - 1)) /\ pc' = pc
    /\ UNCHANGED <<rex, past_boundary, slce_seen>>
    /\ WalkFrame

\* a read of memory that is not mapped: the chunk header, or the payload
\* bytes the handler of the chunk reads
WalkFault ==
    /\ pc = "walk"
    /\ InLoop(Top)
    /\ \/ ~HeaderMapped(Top)
       \/ AtChunk(TagGLOB) /\ ~PayloadMapped(GlobExtent)
       \/ AtChunk(TagHEAD) /\ ~PayloadMapped(HeadExtent)
       \/ AtChunk(TagSINF) /\ ~PayloadMapped(SinfExtent)
       \/ AtChunk(TagSLCE) /\ ~PayloadMapped(SlceExtent)
       \/ /\ AtChunk(TagSDAT)
          /\ SdatWanted(sdat_decoded)
          /\ ~PayloadMapped(DecodeSdat(rex, ChunkData, ChunkLen(Top), TRUE).read)
    /\ pc' = "fault"
    /\ oob' = TRUE
    /\ UNCHANGED <<rex, stack, past_boundary, slce_seen>>
    /\ WalkFrame

\* rex_parse after the walk (lines 263-287)
RexParseFinish ==
    /\ pc = "post"
    /\ LET t == RexParseTail(rex, sdat_decoded)
       IN /\ rex' = t.rex
          /\ ret' = t.ret
          /\ live' = IF rex.pcm_data # NULL /\ t.rex.pcm_data = NULL
                         THEN live - 1 ELSE live
    /\ pc' = "returned"
    /\ UNCHANGED <<mem, data_len, stack, sdat_decoded, oob, past_boundary,
                   slce_seen, sdat_seen, sdat_call, refused>>
    /\ ParseFrame

Next ==
    \/ RexParseReject
    \/ RexParseBegin
    \/ WalkCat
    \/ WalkGlob
    \/ WalkHead
    \/ WalkSinf
    \/ WalkSlce
    \/ WalkSdat
    \/ WalkSkip
    \/ WalkReturn
    \/ WalkFault
    \/ RexParseFinish

Spec == Init /\ [][Next]_vars

---------------------------------------------------------------------------
(* SpecTwice: rex_parse called a second time on the same input bytes *)

\* bytes behind the buffer that read as chunks: the four bytes a nested CAT
\* skips, an SDAT chunk or none, and a chunk of length 0xFFFFFFFE, which fits
\* no boundary
ChunkTails ==
    {ZeroBytes(4) \o Chunk(TagJUNK, -2, <<>>),
     ZeroBytes(4) \o Sdat(<<165, 195>>) \o Chunk(TagJUNK, -2, <<>>)}

InitTwice ==
    /\ \E f \in Files, t \in Tails \cup ChunkTails :
           /\ mem = f \o t
           /\ data_len = Len(f)
    /\ rex = RexZero
    /\ pc = "entry"
    /\ stack = <<>>
    /\ sdat_decoded = FALSE
    /\ ret = 0
    /\ live = 0
    /\ oob = FALSE
    /\ past_boundary = FALSE
    /\ slce_seen = <<>>
    /\ sdat_seen = 0
    /\ sdat_call = NoCall
    /\ refused = FALSE
    /\ first = NoPass
    /\ frees = 0
    /\ DwopIdle
    /\ DwvwIdle
    /\ PluginIdle

\* rex_parse has returned; the caller frees the record and calls
\* rex_parse(rex, data, data_len) again with the same data_len bytes.  What
\* lies behind the buffer is not the caller's to fix.
RexParseAgain ==
    /\ pc = "returned"
    /\ ~first.done
    /\ first' = [done |-> TRUE, ret |-> ret, pcm_samples |-> rex.pcm_samples,
                 refused |-> refused]
    /\ \E t \in Tails \cup ChunkTails : mem' = SubSeq(mem, 1, data_len) \o t
    /\ rex' = RexZero
    /\ pc' = "entry"
    /\ stack' = <<>>
    /\ sdat_decoded' = FALSE
    /\ ret' = 0
    /\ live' = 0
    /\ oob' = FALSE
    /\ past_boundary' = FALSE
    /\ slce_seen' = <<>>
    /\ sdat_seen' = 0
    /\ sdat_call' = NoCall
    /\ refused' = FALSE
    /\ UNCHANGED <<data_len, frees, dwopVars, dwvwVars, pluginVars>>

NextTwice ==
    \/ Next
    \/ RexParseAgain

SpecTwice == InitTwice /\ [][NextTwice]_vars

---------------------------------------------------------------------------
(* SpecFree: rex_parse, then the caller's calls of rex_free *)

MaxFrees == 2          \* calls of rex_free on one record

\* rex_free(rex) (lines 290-298) on the record rex_parse returned: free is
\* called iff pcm_data is not NULL
RexFreeCall ==
    /\ pc \in {"returned", "freed"}
    /\ frees < MaxFrees
    /\ rex' = RexFree(rex)
    /\ live' = IF rex.pcm_data # NULL THEN live - 1 ELSE live
    /\ frees' = frees + 1
    /\ pc' = "freed"
    /\ UNCHANGED <<mem, data_len, stack, sdat_decoded, ret, oob, past_boundary,
                   slce_seen, sdat_seen, sdat_call, refused, first, dwopVars,
                   dwvwVars, pluginVars>>

NextFree ==
    \/ Next
    \/ RexFreeCall

SpecFree == Init /\ [][NextFree]_vars

---------------------------------------------------------------------------
(* SpecDwop: one call of dwop_decode or dwop_decode_stereo, one action per *)
(* decoded sample                                                          *)

\* no rex_parse is running
ParseIdle ==
    /\ mem = <<>>
    /\ data_len = 0
    /\ rex = RexZero
    /\ pc = "idle"
    /\ stack = <<>>
    /\ sdat_decoded = FALSE
    /\ ret = 0
    /\ live = 0
    /\ oob = FALSE
    /\ past_boundary = FALSE
    /\ slce_seen = <<>>
    /\ sdat_seen = 0
    /\ sdat_call = NoCall
    /\ refused = FALSE
    /\ first = NoPass
    /\ frees = 0

\* what a step of the DWOP decoders leaves alone
DwopFrame == UNCHANGED <<parseVars, dwvwVars, pluginVars>>

\* dwop_init or the locals of dwop_decode_stereo, on a payload of DwopInputs
InitDwop ==
    /\ ParseIdle
    /\ DwvwIdle
    /\ PluginIdle
    /\ \/ \E d \in DwopInputs, m \in {"mono", "stereo"}, k \in 0..MaxSamples :
              /\ mode = m
              /\ state = DwopInit(d, Len(d))
              /\ br = SbrInit(d, Len(d))
              /\ max_samples = k
       \/ /\ mode = "mono"
          /\ state = DwopInit(SilenceInput, Len(SilenceInput))
          /\ br = SbrInit(SilenceInput, Len(SilenceInput))
          /\ max_samples = SilenceSamples
    /\ L = SchInit
    /\ R = SchInit
    /\ out = <<>>
    /\ n = 0
    /\ dpc = "loop"
    /\ last = NoSample

\* one iteration of dwop_decode's loop (lines 88-204)
DwopDecodeIterate ==
    LET Sample(r) ==
            IF r.how = "ok"
                THEN \E trap \in Traps(r.sov) :
                         IF trap
                             THEN dpc' = "trap" /\ UNCHANGED <<state, out, n, last>>
                         ELSE /\ state' = r.st
                              /\ out' = Append(out, r.sample)
                              /\ n' = n + 1
                              /\ last' = [ch |-> "mono", how |-> "ok",
                                          sample |-> r.sample]
                              /\ dpc' = dpc
            ELSE /\ state' = r.st
                 /\ last' = [ch |-> "mono", how |-> r.how, sample |-> 0]
                 /\ dpc' = "returned"
                 /\ UNCHANGED <<out, n>>
    IN /\ mode = "mono"
       /\ dpc = "loop"
       /\ n < max_samples
       /\ Sample(DwopDecodeSample(state))
       /\ UNCHANGED <<mode, br, L, R, max_samples>>
       /\ DwopFrame

\* dwop_decode returns n at the end of the loop (line 206)
DwopDecodeReturn ==
    /\ mode = "mono"
    /\ dpc = "loop"
    /\ n >= max_samples
    /\ dpc' = "returned"
    /\ UNCHANGED <<mode, state, br, L, R, out, n, max_samples, last>>
    /\ DwopFrame

\* StereoFrame with the right sample taken to be the delta itself
StereoFrameNoSum(l_out, r_delta) == <<l_out, r_delta>>

\* out[n * 2] = l_out; out[n * 2 + 1] = (int16_t)(l_out + r_delta)
StereoFrame(l_out, r_delta) == <<l_out, Int16(l_out + r_delta)>>

\* l_out = stereo_decode_one(&L, &br) (line 369)
StereoDecodeLeft ==
    LET Sample(x) ==
            \E trap \in Traps(x.sov) :
                IF trap THEN dpc' = "trap" /\ UNCHANGED <<L, br, last>>
                ELSE /\ L' = x.ch
                     /\ br' = x.br
                     /\ last' = [ch |-> "L", how |-> x.how, sample |-> x.sample]
                     /\ dpc' = "right"
    IN /\ mode = "stereo"
       /\ dpc = "loop"
       /\ n < max_samples
       /\ Sample(StereoDecodeOne(L, br))
       /\ UNCHANGED <<mode, state, R, out, n, max_samples>>
       /\ DwopFrame

\* r_delta = stereo_decode_one(&R, &br) and the two stores (lines 370-372)
StereoDecodeRight ==
    LET Sample(y) ==
            \E trap \in Traps(y.sov) :
                IF trap THEN dpc' = "trap" /\ UNCHANGED <<R, br, last, out, n>>
                ELSE /\ R' = y.ch
                     /\ br' = y.br
                     /\ out' = out \o StereoFrame(last.sample, y.sample)
                     /\ n' = n + 1
                     /\ last' = [ch |-> "R", how |-> y.how, sample |-> y.sample]
                     /\ dpc' = "loop"
    IN /\ mode = "stereo"
       /\ dpc = "right"
       /\ Sample(StereoDecodeOne(R, br))
       /\ UNCHANGED <<mode, state, L, max_samples>>
       /\ DwopFrame

\* dwop_decode_stereo returns n (line 375)
StereoDecodeReturn ==
    /\ mode = "stereo"
    /\ dpc = "loop"
    /\ n >= max_samples
    /\ dpc' = "returned"
    /\ UNCHANGED <<mode, state, br, L, R, out, n, max_samples, last>>
    /\ DwopFrame

NextDwop ==
    \/ DwopDecodeIterate
    \/ DwopDecodeReturn
    \/ StereoDecodeLeft
    \/ StereoDecodeRight
    \/ StereoDecodeReturn

SpecDwop == InitDwop /\ [][NextDwop]_vars

\* A call that was made runs on: the decoders are straight-line C, so the
\* statement a call stands at is executed.  The conditions under which an
\* iteration can be taken are written out.
LiveDwop ==
    /\ SpecDwop
    /\ WF_vars(DwopDecodeReturn)
    /\ WF_vars(StereoDecodeReturn)
    /\ <>[](mode = "mono" /\ dpc = "loop" /\ n < max_samples)
           => []<><<DwopDecodeIterate>>_vars
    /\ <>[](mode = "stereo" /\ dpc = "loop" /\ n < max_samples)
           => []<><<StereoDecodeLeft>>_vars
    /\ <>[](mode = "stereo" /\ dpc = "right") => []<><<StereoDecodeRight>>_vars

---------------------------------------------------------------------------
(* dwvw.c: the DWVW decoder *)

\* a << 8 of an int, modulo 2^32
Shl8(a) ==
    LET m == a % 16777216
    IN IF m >= 8388608 THEN (m - 16777216) * 256 ELSE m * 256

\* a << 8 is undefined for the int a: a is negative or the result overflows
Shl8Ov(a) == a < 0 \/ a >= 8388608

\* DwvwInit with a width modifier of up to bit_width bits
DwvwInitWideModifier(data, len, bit_width) ==
    [data |-> data, data_len |-> len, byte_pos |-> 0, bits |-> 0,
     bit_count |-> 0, bit_width |-> bit_width,
     max_delta |-> 2^(bit_width - 1), span |-> 2^bit_width,
     dwm_maxsize |-> bit_width,
     last_delta_width |-> 0, last_sample |-> 0, samples_decoded |-> 0]

\* dwvw_init
DwvwInit(data, len, bit_width) ==
    [data |-> data, data_len |-> len, byte_pos |-> 0, bits |-> 0,
     bit_count |-> 0, bit_width |-> bit_width,
     max_delta |-> 2^(bit_width - 1), span |-> 2^bit_width,
     dwm_maxsize |-> bit_width \div 2,
     last_delta_width |-> 0, last_sample |-> 0, samples_decoded |-> 0]

\* DwvwFillStep padding with a zero byte whatever the width asked for
DwvwFillStepPadsAlways(x) ==
    IF x.st.byte_pos >= x.st.data_len
        THEN [x EXCEPT !.st.bits = Shl8(@), !.st.bit_count = @ + 8,
                       !.sov = @ \/ Shl8Ov(x.st.bits)]
    ELSE [x EXCEPT !.st.bits = Shl8(@) + Rd(x.st.data, x.st.byte_pos),
                   !.st.byte_pos = @ + 1, !.st.bit_count = @ + 8,
                   !.sov = @ \/ Shl8Ov(x.st.bits)]

\* dwvw_load_bits, one iteration of the loading loop (lines 65-79) on
\* x = [st, want, eof, sov]: eof is the return of -1, sov an undefined shift
DwvwFillStep(x) ==
    IF x.st.byte_pos >= x.st.data_len
        THEN IF x.want < 8 THEN [x EXCEPT !.eof = TRUE]
             ELSE [x EXCEPT !.st.bits = Shl8(@), !.st.bit_count = @ + 8,
                            !.sov = @ \/ Shl8Ov(x.st.bits)]
    ELSE [x EXCEPT !.st.bits = Shl8(@) + Rd(x.st.data, x.st.byte_pos),
                   !.st.byte_pos = @ + 1, !.st.bit_count = @ + 8,
                   !.sov = @ \/ Shl8Ov(x.st.bits)]

DwvwFillCont(x) == ~x.eof /\ x.st.bit_count < x.want

RECURSIVE DwvwFillLoop(_, _)
DwvwFillLoop(x, left) ==
    IF left = 0 \/ ~DwvwFillCont(x) THEN x
    ELSE IF left < 0 THEN DwvwFillLoop(DwvwFillLoop(x, StretchLen), -1)
    ELSE DwvwFillLoop(DwvwFillStep(x), left - 1)

\* the reservoir loaded for want bits: [st, want, eof, sov]
DwvwFill(st, want) ==
    DwvwFillLoop([st |-> st, want |-> want, eof |-> FALSE, sov |-> FALSE], -1)

\* bit k of the int a (two's complement)
BitOf(a, k) == (a \div 2^k) % 2

\* one iteration of the scan (lines 91-96) on x = [st, output, brk]
DwvwScanStep(x) ==
    [x EXCEPT !.st.bit_count = @ - 1,
              !.brk = BitOf(x.st.bits, x.st.bit_count - 1) = 1,
              !.output = IF BitOf(x.st.bits, x.st.bit_count - 1) = 1
                             THEN @ ELSE @ + 1]

\* DwvwScanCont without the cap: the scan ends at a 1 bit only
DwvwScanContUncapped(x) == ~x.brk /\ x.st.bit_count > 0

\* while (output < state->dwm_maxsize), left early by the break
DwvwScanCont(x) == ~x.brk /\ x.output < x.st.dwm_maxsize

RECURSIVE DwvwScanLoop(_, _)
DwvwScanLoop(x, left) ==
    IF left = 0 \/ ~DwvwScanCont(x) THEN x
    ELSE IF left < 0 THEN DwvwScanLoop(DwvwScanLoop(x, StretchLen), -1)
    ELSE DwvwScanLoop(DwvwScanStep(x), left - 1)

\* dwvw_load_bits(state, bit_count): [value, st, sov]; bit_count < 0 asks for
\* the width modifier
DwvwLoadBits(st, bit_count) ==
    LET Scanned(f, s) == [value |-> s.output, st |-> s.st, sov |-> f.sov]
        Loaded(f, want) ==
            IF f.eof THEN [value |-> -1, st |-> f.st, sov |-> f.sov]
            ELSE IF bit_count >= 0
                THEN [value |-> (f.st.bits \div 2^(f.st.bit_count - want))
                                    % 2^want,
                      st    |-> [f.st EXCEPT !.bit_count = @ - want],
                      sov   |-> f.sov]
            ELSE Scanned(f, DwvwScanLoop([st |-> f.st, output |-> 0,
                                          brk |-> FALSE], -1))
        Wanted(want) == Loaded(DwvwFill(st, want), want)
    IN Wanted(IF bit_count < 0 THEN st.dwm_maxsize ELSE bit_count)

\* all input consumed and no bit left in the reservoir
DwvwDrained(st) == st.byte_pos >= st.data_len /\ st.bit_count = 0

\* one iteration of dwvw_decode's loop (lines 114-169) from the state st and
\* the locals c = [count, delta_width, sample]: [how, st, delta_width,
\* sample, wrote, sov]; how is "eof" (break at 119), "first" (break at
\* 124), "last" (break at 169, out[count] written) or "ok"
DwvwDecodeSample(st, c) ==
    LET Wrap(s1) ==
            IF s1 >= st.max_delta THEN s1 - st.span
            ELSE IF s1 < -st.max_delta THEN s1 + st.span
            ELSE s1
        Store(s2, dw, delta, sov) ==
            [how |-> IF DwvwDrained(s2) THEN "last" ELSE "ok",
             st |-> s2, delta_width |-> dw,
             sample |-> Wrap(c.sample + delta),
             wrote |-> <<Int16(Wrap(c.sample + delta) * 2^(16 - st.bit_width))>>,
             sov |-> sov]
        Signed(s2, dw, delta, neg, sov) ==
            Store(s2, dw, IF neg # 0 THEN -delta ELSE delta, sov)
        Extra(x, dw, delta, neg, sov) ==
            Signed(x.st, dw, delta + x.value, neg, sov \/ x.sov)
        Negative(g, dw, delta, sov) ==
            IF delta = st.max_delta - 1
                THEN Extra(DwvwLoadBits(g.st, 1), dw, delta, g.value,
                           sov \/ g.sov)
            ELSE Signed(g.st, dw, delta, g.value, sov \/ g.sov)
        Magnitude(a, dw, sov) ==
            Negative(DwvwLoadBits(a.st, 1), dw,
                     IF a.value < 0 THEN -1 ELSE a.value + 2^(dw - 1),
                     sov \/ a.sov)
        Width(s2, dw, sov) ==
            IF dw # 0 THEN Magnitude(DwvwLoadBits(s2, dw - 1), dw, sov)
            ELSE Store(s2, dw, 0, sov)
        Modified(s2, modifier, sov) ==
            Width(s2, (c.delta_width + modifier + st.bit_width) % st.bit_width,
                  sov)
        Sign(g, m) ==
            Modified(g.st, IF g.value # 0 THEN -m.value ELSE m.value,
                     m.sov \/ g.sov)
        Modifier(m) ==
            IF m.value < 0 \/ (DwvwDrained(m.st) /\ c.count = 0)
                THEN [how |-> IF m.value < 0 THEN "eof" ELSE "first",
                      st |-> m.st, delta_width |-> c.delta_width,
                      sample |-> c.sample, wrote |-> <<>>, sov |-> m.sov]
            ELSE IF m.value # 0 THEN Sign(DwvwLoadBits(m.st, 1), m)
            ELSE Modified(m.st, 0, m.sov)
    IN Modifier(DwvwLoadBits(st, -1))

\* dwvw_decode's for loop on x = [st, count, max, delta_width, sample, out,
\* how, sov]; out holds the values written to out[], in order
DwvwDecodeStep(x) ==
    LET Iterate(r) ==
            [x EXCEPT !.st = r.st, !.delta_width = r.delta_width,
                      !.sample = r.sample, !.out = @ \o r.wrote,
                      !.how = r.how, !.sov = @ \/ r.sov,
                      !.count = IF r.how = "ok" THEN @ + 1 ELSE @]
    IN Iterate(DwvwDecodeSample(x.st, x))

DwvwDecodeCont(x) == x.how = "ok" /\ x.count < x.max

RECURSIVE DwvwDecodeLoop(_, _)
DwvwDecodeLoop(x, left) ==
    IF left = 0 \/ ~DwvwDecodeCont(x) THEN x
    ELSE IF left < 0 THEN DwvwDecodeLoop(DwvwDecodeLoop(x, StretchLen), -1)
    ELSE DwvwDecodeLoop(DwvwDecodeStep(x), left - 1)

\* the locals of dwvw_decode at the head of its loop (lines 107-113)
DwvwEnter(st, max) ==
    [st |-> st, count |-> 0,
     max |-> IF max > MAX_FRAMES_CAP THEN MAX_FRAMES_CAP ELSE max,
     delta_width |-> st.last_delta_width, sample |-> st.last_sample,
     out |-> <<>>, how |-> "ok", sov |-> FALSE]

\* the state saved when the loop is left (lines 173-175)
DwvwSave(x) ==
    [x.st EXCEPT !.last_delta_width = x.delta_width,
                 !.last_sample = x.sample,
                 !.samples_decoded = @ + x.count]

\* dwvw_decode(state, out, max_samples): [count, st, out, sov]
DwvwDecode(st, max) ==
    LET Left(x) == [count |-> x.count, st |-> DwvwSave(x), out |-> x.out,
                    sov |-> x.sov]
    IN Left(DwvwDecodeLoop(DwvwEnter(st, max), -1))

---------------------------------------------------------------------------
(* SpecDwvw: dwvw_init, then calls of dwvw_decode on the same state, each    *)
(* call one action per iteration of its loop                                 *)

MaxCalls == 2       \* calls of dwvw_decode on one state
MaxAsked == 3       \* samples asked for, all calls together

BitWidths == {8, 12, 16}

\* input bytes: 8 is 0000 1000, the width-modifier cap of an 8-bit stream (4
\* zero bits) with a 1 bit after it
DwvwAlphabet == ByteAlphabet \cup {8}

\* the samples asked for by the calls that returned
RECURSIVE Asked(_)
Asked(calls) == IF calls = <<>> THEN 0 ELSE Head(calls).asked + Asked(Tail(calls))

\* what a step of dwvw_decode leaves alone
DwvwFrame == UNCHANGED <<parseVars, dwopVars, pluginVars>>

InitDwvw ==
    /\ ParseIdle
    /\ DwopIdle
    /\ PluginIdle
    /\ \E d \in SeqsUpTo(DwvwAlphabet, MaxBytes), w \in BitWidths :
           wx = [st |-> DwvwInit(d, Len(d), w)]
    /\ wpc = "ready"
    /\ wcalls = <<>>

\* dwvw_decode is called for k samples (lines 107-111)
DwvwCall ==
    /\ wpc = "ready"
    /\ Len(wcalls) < MaxCalls
    /\ \E k \in 0..(MaxAsked - Asked(wcalls)) : wx' = DwvwEnter(wx.st, k)
    /\ wpc' = "loop"
    /\ UNCHANGED wcalls
    /\ DwvwFrame

\* one iteration of the loop (lines 113-170); an undefined shift wraps or
\* traps
DwvwIterate ==
    /\ wpc = "loop"
    /\ DwvwDecodeCont(wx)
    /\ \E trap \in Traps(DwvwDecodeSample(wx.st, wx).sov) :
           IF trap THEN wpc' = "trap" /\ wx' = wx
           ELSE wpc' = wpc /\ wx' = [DwvwDecodeStep(wx) EXCEPT !.sov = FALSE]
    /\ UNCHANGED wcalls
    /\ DwvwFrame

\* the loop is left: the state is saved and count returned (lines 173-177)
DwvwReturn ==
    /\ wpc = "loop"
    /\ ~DwvwDecodeCont(wx)
    /\ wx' = [wx EXCEPT !.st = DwvwSave(wx)]
    /\ wcalls' = Append(wcalls, [asked |-> wx.max, count |-> wx.count,
                                  out |-> wx.out])
    /\ wpc' = "ready"
    /\ DwvwFrame

NextDwvw ==
    \/ DwvwCall
    \/ DwvwIterate
    \/ DwvwReturn

SpecDwvw == InitDwvw /\ [][NextDwvw]_vars

\* a call that was made runs on: dwvw_decode is straight-line C code, so its
\* loop takes its next iteration (weak fairness of DwvwIterate, written out
\* with its enabling condition wpc = "loop" /\ DwvwDecodeCont(wx)) and its
\* return is taken when the loop is left
LiveDwvw ==
    /\ SpecDwvw
    /\ WF_vars(DwvwReturn)
    /\ <>[](wpc = "loop" /\ DwvwDecodeCont(wx)) => []<><<DwvwIterate>>_vars

---------------------------------------------------------------------------
(* rexwav_reader.c: rexwav_parse *)

MagicRXWV == <<82, 88, 87, 86>>

\* *(const uint32_t *)(d + i), the word stored least significant byte first
ReadU32LE(d, i) ==
    LET b3 == Rd(d, i + 3)
    IN Rd(d, i) + Rd(d, i + 1) * 256 + Rd(d, i + 2) * 65536
       + (IF b3 >= 128 THEN b3 - 256 ELSE b3) * 16777216

\* sizeof(size_t): the sizes of lines 48-50 are 64-bit
SizeBytes == 8

\* the uint32_t word w (or a natural below 2^31) as an unsigned number of k
\* bytes, least significant first
W64(w, k) == [i \in 1..k |-> IF i <= 4 THEN (w \div 256 ^ (i - 1)) % 256 ELSE 0]

\* column k of the product a * b
RECURSIVE WDot(_, _, _, _)
WDot(a, b, k, i) ==
    IF i > k THEN 0 ELSE a[i] * b[k + 1 - i] + WDot(a, b, k, i + 1)

\* the carries of the column sums cols taken from column k on; what leaves
\* the last byte is lost
RECURSIVE WNorm(_, _, _)
WNorm(cols, k, carry) ==
    IF k > Len(cols) THEN <<>>
    ELSE <<(cols[k] + carry) % 256>>
         \o WNorm(cols, k + 1, (cols[k] + carry) \div 256)

\* a * b and a + b in Len(a) bytes
WMul(a, b) == WNorm([k \in 1..Len(a) |-> WDot(a, b, k, 1)], 1, 0)
WAdd(a, b) == WNorm([k \in 1..Len(a) |-> a[k] + b[k]], 1, 0)

\* a < b, decided from byte k down
RECURSIVE WLtFrom(_, _, _)
WLtFrom(a, b, k) ==
    IF k = 0 THEN FALSE
    ELSE IF a[k] # b[k] THEN a[k] < b[k]
    ELSE WLtFrom(a, b, k - 1)

WLt(a, b) == WLtFrom(a, b, Len(a))

\* the value of a when it is below 2^24, else -1
WSmall(a) ==
    IF \A k \in 4..Len(a) : a[k] = 0 THEN a[1] + a[2] * 256 + a[3] * 65536
    ELSE -1

\* the header words (lines 30-35)
WavVersion(d)     == ReadU32LE(d, 4)
WavSampleRate(d)  == ReadU32LE(d, 8)
WavChannels(d)    == ReadU32LE(d, 12)
WavSliceCount(d)  == ReadU32LE(d, 16)
WavTotalFrames(d) == ReadU32LE(d, 20)
WavTempo(d)       == ReadU32LE(d, 24)

\* lines 48-50 in sizes of k bytes; slice_count <= REX_MAX_SLICES here
SliceTableSize(d, k) == W64(WavSliceCount(d) * 8, k)

PcmSize(d, k) ==
    WMul(WMul(W64(WavTotalFrames(d), k), W64(WavChannels(d), k)), W64(2, k))

ExpectedSize(d, k) ==
    WAdd(WAdd(W64(64, k), SliceTableSize(d, k)), PcmSize(d, k))

\* the message of the check that rejects the input (lines 18-55), "" when
\* none does; the numbers printed into the message are left out
WavError(d, len) ==
    IF len < 64 THEN "File too small for REXWAV header"
    ELSE IF ~TagMatch(d, 0, MagicRXWV) THEN "Not a REXWAV file (bad magic)"
    ELSE IF WavVersion(d) # 1 THEN "Unsupported REXWAV version"
    ELSE IF ULt(REX_MAX_SLICES, WavSliceCount(d)) THEN "Too many slices"
    ELSE IF WLt(W64(len, SizeBytes), ExpectedSize(d, SizeBytes))
        THEN "File truncated"
    ELSE ""

\* the slice table entries 0 .. count - 1 (lines 68-72)
WavSlices(d, count) ==
    [i \in 1..count |->
        [sample_offset |-> ReadU32LE(d, 64 + (i - 1) * 8),
         sample_length |-> ReadU32LE(d, 64 + (i - 1) * 8 + 4)]]

\* the record after lines 58-72
WavPopulated(d) ==
    [RexZero EXCEPT !.sample_rate = WavSampleRate(d),
                    !.channels = WavChannels(d),
                    !.bytes_per_sample = 2,
                    !.tempo_bpm = [num |-> WavTempo(d), den |-> 1000],
                    !.time_sig_num = Rd(d, 28),
                    !.time_sig_den = Rd(d, 29),
                    !.slice_count = WavSliceCount(d),
                    !.total_sample_length = WavTotalFrames(d),
                    !.slices = WavSlices(d, WavSliceCount(d))]

\* the first byte of the PCM data and the byte after its last
PcmFirst(d) == 64 + WavSliceCount(d) * 8
PcmEnd(d) == PcmFirst(d) + WSmall(PcmSize(d, SizeBytes))

\* no malloc grants 2^63 bytes or more
Grantable(size) == size[Len(size)] < 128

---------------------------------------------------------------------------
(* Bounds and inputs of SpecWav: REXWAV files as bytes *)

MaxWavFrames == 2      \* largest total_frames of a well-formed file
MaxWavSlices == 2      \* longest slice table of a well-formed file

\* the four bytes of the word w, least significant first
LE32(w) ==
    <<w % 256, (w \div 256) % 256, (w \div 65536) % 256, (w \div 16777216) % 256>>

\* the 64-byte header: 44100 Hz, 120 bpm, 4/4
WavHeader(magic, version, channels, slice_count, total_frames) ==
    magic \o LE32(version) \o LE32(44100) \o LE32(channels)
    \o LE32(slice_count) \o LE32(total_frames) \o LE32(120000) \o <<4, 4>>
    \o ZeroBytes(34)

\* slice table entries <<sample_offset, sample_length>>; -1 is 0xFFFFFFFF
SliceMenu == {<<0, 1>>, <<1, 1>>, <<5, 10>>, <<-1, 2>>}

WavTable(ss) == Concat([i \in 1..Len(ss) |-> LE32(ss[i][1]) \o LE32(ss[i][2])])

WavPcm(k) == [i \in 1..k |-> (7 * i) % 256]

\* a file of the declared size
WellFormed(channels, total_frames, ss) ==
    WavHeader(MagicRXWV, 1, channels, Len(ss), total_frames)
    \o WavTable(ss) \o WavPcm(2 * channels * total_frames)

\* channels = 0xFFFE0002 and total_frames = 0x80010001: the product is
\* 2^63 + 2, twice that 2^64 + 4
WrapFile == WavHeader(MagicRXWV, 1, -131070, 0, -2147418111) \o WavPcm(4)

\* channels = 0xFFFFFFF8 and total_frames = 0x80000004, one slice: twice the
\* product is 2^64 - 64
EdgeFile == WavHeader(MagicRXWV, 1, -8, 1, MinInt32 + 4)

WavFiles ==
    {WellFormed(c, t, ss) : c \in {1, 2}, t \in 0..MaxWavFrames,
                            ss \in SeqsUpTo(SliceMenu, MaxWavSlices)}
    \cup {SubSeq(WellFormed(c, t, <<>>), 1, 63 + 2 * c * t) :
              c \in {1, 2}, t \in 0..MaxWavFrames}
    \cup {WavHeader(<<82, 73, 70, 70>>, 1, 1, 0, 0),
          WavHeader(MagicRXWV, 2, 1, 0, 0),
          WavHeader(MagicRXWV, 0, 1, 0, 0),
          WavHeader(MagicRXWV, 1, 1, REX_MAX_SLICES + 1, 0),
          WavHeader(MagicRXWV, 1, 1, -1, 0),
          WavHeader(MagicRXWV, 1, 1, 1, 0),
          WrapFile,
          EdgeFile,
          <<>>}

---------------------------------------------------------------------------
(* SpecWav: one call of rexwav_parse *)

WavFrame ==
    UNCHANGED <<mem, data_len, stack, sdat_decoded, past_boundary, slce_seen,
                sdat_seen, sdat_call, refused, first, frees, dwopVars,
                dwvwVars, pluginVars>>

InitWav ==
    /\ \E f \in WavFiles, t \in Tails :
           /\ mem = f \o t
           /\ data_len = Len(f)
    /\ rex = RexZero
    /\ pc = "entry"
    /\ stack = <<>>
    /\ sdat_decoded = FALSE
    /\ ret = 0
    /\ live = 0
    /\ oob = FALSE
    /\ past_boundary = FALSE
    /\ slce_seen = <<>>
    /\ sdat_seen = 0
    /\ sdat_call = NoCall
    /\ refused = FALSE
    /\ first = NoPass
    /\ frees = 0
    /\ DwopIdle
    /\ DwvwIdle
    /\ PluginIdle

\* one of the checks of lines 18-55 returns -1
WavReject ==
    /\ pc = "entry"
    /\ WavError(mem, data_len) # ""
    /\ rex' = [RexZero EXCEPT !.error = WavError(mem, data_len)]
    /\ ret' = -1
    /\ pc' = "returned"
    /\ UNCHANGED <<live, oob>>
    /\ WavFrame

\* the checks pass: the record is populated and the slice table read
\* (lines 58-72)
WavPopulate ==
    /\ pc = "entry"
    /\ WavError(mem, data_len) = ""
    /\ PcmFirst(mem) <= Len(mem)
    /\ rex' = WavPopulated(mem)
    /\ oob' = (oob \/ (WavSliceCount(mem) > 0 /\ PcmFirst(mem) > data_len))
    /\ pc' = "alloc"
    /\ UNCHANGED <<ret, live>>
    /\ WavFrame

\* the slice table lies in memory that is not mapped
WavFault ==
    /\ pc = "entry"
    /\ WavError(mem, data_len) = ""
    /\ PcmFirst(mem) > Len(mem)
    /\ pc' = "fault"
    /\ oob' = TRUE
    /\ UNCHANGED <<rex, ret, live>>
    /\ WavFrame

\* malloc returns NULL (lines 75-79)
WavAllocFail ==
    /\ pc = "alloc"
    /\ rex' = [rex EXCEPT !.error = "Failed to allocate"]
    /\ ret' = -1
    /\ pc' = "returned"
    /\ UNCHANGED <<live, oob>>
    /\ WavFrame

\* malloc grants the block: the PCM data is copied and 0 returned
\* (lines 75-84).  A grantable size that passed the check of line 51 is not
\* larger than the input, so the bytes copied are bytes of the input.
WavCopy ==
    /\ pc = "alloc"
    /\ Grantable(PcmSize(mem, SizeBytes))
    /\ WSmall(PcmSize(mem, SizeBytes)) >= 0
    /\ PcmEnd(mem) <= Len(mem)
    /\ rex' = [rex EXCEPT
                  !.pcm_data = [null |-> FALSE,
                                bytes |-> SubSeq(mem, PcmFirst(mem) + 1,
                                                 PcmEnd(mem))],
                  !.pcm_samples = WavTotalFrames(mem),
                  !.pcm_channels = WavChannels(mem)]
    /\ live' = live + 1
    /\ oob' = (oob \/ (PcmEnd(mem) > PcmFirst(mem) /\ PcmEnd(mem) > data_len))
    /\ ret' = 0
    /\ pc' = "returned"
    /\ WavFrame

NextWav ==
    \/ WavReject
    \/ WavPopulate
    \/ WavFault
    \/ WavAllocFail
    \/ WavCopy

SpecWav == InitWav /\ [][NextWav]_vars

---------------------------------------------------------------------------
(* Properties of rex_parse (Spec) *)

TypeOK == pc \in {"entry", "walk", "post", "returned", "fault", "trap", "idle"}

\* rex_parse has returned 0 / -1
Succeeded == pc = "returned" /\ ret = 0
Failed == pc = "returned" /\ ret = -1

\* the slice entry s was retained by parse_slce: its length, unsigned, is > 1
Retained(s) == ULt(1, s.sample_length)

\* C1 (as the claim states it; the code violates it): after a successful
\* rex_parse every slice lies inside the decoded audio, sample_offset +
\* sample_length <= pcm_samples with the sum taken without wrap-around over
\* the unsigned 32-bit fields.
C1_SlicesWithinPcm ==
    Succeeded =>
        \A i \in 1..rex.slice_count :
            /\ rex.slices[i].sample_offset >= 0
            /\ rex.slices[i].sample_length >= 0
            /\ rex.slices[i].sample_offset <= rex.pcm_samples
            /\ rex.slices[i].sample_length
                   <= rex.pcm_samples - rex.slices[i].sample_offset

\* C2 (amended): after rex_parse returns, 0 <= pcm_samples <= 10,000,000,
\* and a non-zero pcm_samples is at most the budget decode_sdat chose: the
\* total_sample_length in effect at the decode if that was > 0, otherwise
\* 2 * sdat_len + 1024.
C2_FramesWithinChosenBudget ==
    pc = "returned" =>
        /\ rex.pcm_samples >= 0
        /\ rex.pcm_samples <= MAX_FRAMES_CAP
        /\ rex.pcm_samples > 0 =>
               /\ sdat_call.budgeted
               /\ sdat_call.total # 0 => rex.pcm_samples <= sdat_call.total
               /\ sdat_call.total = 0 =>
                      rex.pcm_samples <= 2 * sdat_call.len + 1024

\* C2 witness: a declared total of more than 10,000,000 frames was decoded
\* and clamped
C2_Clamped ==
    /\ Succeeded
    /\ sdat_call.total > MAX_FRAMES_CAP
    /\ rex.pcm_samples = MAX_FRAMES_CAP

\* C2 (as stated; refuted): after rex_parse returns, pcm_samples is at most
\* min(total_sample_length, 10,000,000), total_sample_length the unsigned
\* value SINF left in the record (0 when there was no SINF).
C2_FramesWithinDeclaredTotal ==
    pc = "returned" =>
        /\ rex.pcm_samples <= MAX_FRAMES_CAP
        /\ rex.total_sample_length >= 0 =>
               rex.pcm_samples <= rex.total_sample_length

\* C3 (as the claim states it; the code violates it): whenever decode_sdat
\* computed a frame budget, max_frames is the declared total (unsigned) if it
\* is > 0, else 2 * sdat_len + 1024, clamped to 10,000,000; a buffer that was
\* obtained holds exactly max_frames * channels elements and no more than
\* that were written.
C3_BudgetAndBuffer ==
    /\ sdat_call.budgeted =>
           sdat_call.max_frames =
               IF sdat_call.total < 0 THEN MAX_FRAMES_CAP
               ELSE IF sdat_call.total > 0
                   THEN (IF sdat_call.total > MAX_FRAMES_CAP
                             THEN MAX_FRAMES_CAP ELSE sdat_call.total)
               ELSE IF sdat_call.len < 0 \/ sdat_call.len > MAX_FRAMES_CAP
                   THEN MAX_FRAMES_CAP
               ELSE IF 2 * sdat_call.len + 1024 > MAX_FRAMES_CAP
                   THEN MAX_FRAMES_CAP
               ELSE 2 * sdat_call.len + 1024
    /\ rex.pcm_data # NULL =>
           /\ rex.pcm_data.frames = sdat_call.max_frames
           /\ rex.pcm_data.mult = (IF sdat_call.is_stereo THEN 2 ELSE 1)
           /\ rex.pcm_data.written >= 0
           /\ rex.pcm_data.written <= rex.pcm_data.frames * rex.pcm_data.mult

\* C4: slice_count never exceeds 256, and while the chunks are walked the
\* slice array is the first 256 retained SLCE entries in file order: a SLCE
\* chunk met with 256 slices retained changes neither the array nor the count.
C4_SliceCap ==
    /\ rex.slice_count <= REX_MAX_SLICES
    /\ Len(rex.slices) <= REX_MAX_SLICES
    /\ pc \in {"walk", "post"} =>
           /\ rex.slice_count = Len(rex.slices)
           /\ rex.slices = SubSeq(SelectSeq(slce_seen, Retained), 1,
                                  rex.slice_count)
           /\ \/ rex.slice_count = REX_MAX_SLICES
              \/ rex.slice_count = Len(SelectSeq(slce_seen, Retained))

\* C4 witness: the walk is over with 256 slices retained and more than 256
\* retainable SLCE chunks walked
C4_CapReached ==
    /\ pc = "post"
    /\ rex.slice_count = REX_MAX_SLICES
    /\ Len(SelectSeq(slce_seen, Retained)) > REX_MAX_SLICES

\* C7: a rex_parse that returned -1 leaves pcm_data NULL, no block allocated
\* and an error string that is not empty.
C7_FailureLeavesNothing ==
    Failed =>
        /\ rex.pcm_data = NULL
        /\ live = 0
        /\ rex.error # ""

\* C7 witness: the failure of a decode that obtained a block and produced no
\* sample
C7_NoSamplesFailure ==
    /\ Failed
    /\ rex.error = "DWOP decode produced no samples"
    /\ sdat_call.budgeted
    /\ sdat_call.malloc_ok

\* the root chunk, padded, does not fit the data_len bytes of the file
RootOverruns ==
    LET chunk_len == ReadU32BE(mem, 4)
        padded_len == IF chunk_len % 2 = 1 THEN Add32(chunk_len, 1) ELSE chunk_len
    IN ~SzLe(SzAddU32(Sz(8), padded_len), Sz(data_len))

\* C8 (as the claim states it; the code violates it): the walker reads no
\* byte at an index >= data_len, and hands no handler a payload
\* [offset + 8, offset + 8 + chunk_len) ending past the enclosing boundary; a
\* root CAT that overruns the file ends in an error with nothing allocated.
C8_WalkStaysInside ==
    /\ ~oob
    /\ ~past_boundary
    /\ (pc = "returned" /\ RootOverruns) =>
           ret = -1 /\ rex.pcm_data = NULL /\ live = 0

\* C9 (amended): once an SDAT chunk has been decoded successfully, no step
\* of the walk calls decode_sdat again or changes pcm_data, pcm_samples or
\* pcm_channels.
C9_DecodedOnce ==
    [][(pc = "walk" /\ sdat_decoded) =>
           /\ rex'.pcm_data = rex.pcm_data
           /\ rex'.pcm_samples = rex.pcm_samples
           /\ rex'.pcm_channels = rex.pcm_channels
           /\ sdat_call' = sdat_call
           /\ sdat_decoded']_vars

\* C9 witness: a second SDAT chunk was walked after the successful decode
C9_LaterSdatIgnored ==
    /\ pc \in {"walk", "post"}
    /\ sdat_decoded
    /\ sdat_seen >= 2
    /\ sdat_call.len > 0

\* C9 (as stated; refuted): after the first SDAT chunk has been met,
\* whether or not it decoded, no step of the walk changes pcm_data,
\* pcm_samples or pcm_channels.
C9_FirstSdatOnly ==
    [][(pc = "walk" /\ sdat_seen >= 1) =>
           /\ rex'.pcm_data = rex.pcm_data
           /\ rex'.pcm_samples = rex.pcm_samples
           /\ rex'.pcm_channels = rex.pcm_channels]_vars

\* C10: a successful rex_parse of a file all of whose SLCE entries have a
\* length <= 1 (or that has none) returns exactly one slice, (0, pcm_samples).
C10_FallbackSlice ==
    (Succeeded /\ SelectSeq(slce_seen, Retained) = <<>>) =>
        /\ rex.slice_count = 1
        /\ rex.slices = <<[sample_offset |-> 0,
                           sample_length |-> rex.pcm_samples]>>

\* C10 witness: success on a file with SLCE entries, all of them markers
C10_OnlyMarkers ==
    /\ Succeeded
    /\ slce_seen # <<>>
    /\ SelectSeq(slce_seen, Retained) = <<>>
    /\ rex.slice_count = 1

\* C11: when SLCE entries of length > 1 were walked, the slices of a
\* successful rex_parse are those entries and no others, in file order and up
\* to the cap of 256, each with the offset its chunk encodes; before the
\* clamp of the lengths the slices are those entries field by field.
C11_OnlyRealSlices ==
    LET real == SelectSeq(slce_seen, Retained)
        kept == IF Len(real) > REX_MAX_SLICES THEN REX_MAX_SLICES ELSE Len(real)
    IN /\ (pc = "post" /\ real # <<>>) => rex.slices = SubSeq(real, 1, kept)
       /\ (Succeeded /\ real # <<>>) =>
              /\ rex.slice_count = kept
              /\ Len(rex.slices) = kept
              /\ \A i \in 1..kept :
                     rex.slices[i].sample_offset = real[i].sample_offset

\* C11 witness: success on a file with a marker walked before a real slice
C11_MarkersDropped ==
    /\ Succeeded
    /\ Len(slce_seen) >= 2
    /\ ~Retained(slce_seen[1])
    /\ Retained(slce_seen[2])
    /\ rex.slice_count = 1

\* C18: a rex_parse entered with fewer than 12 bytes, or with first four
\* bytes other than "CAT ", returns -1 in its next step: no chunk is walked,
\* nothing is allocated, no byte past the input is read, the error string is
\* set, sample_rate is 44100, channels is 1 and every other field is zero.
C18_EarlyReject ==
    [][(pc = "entry" /\ (data_len < 12 \/ ~TagMatch(mem, 0, TagCAT))) =>
           /\ pc' = "returned"
           /\ ret' = -1
           /\ rex'.error # ""
           /\ [rex' EXCEPT !.error = ""] =
                  [RexZero EXCEPT !.sample_rate = 44100, !.channels = 1]
           /\ stack' = <<>>
           /\ live' = 0
           /\ ~oob'
           /\ sdat_seen' = 0
           /\ slce_seen' = <<>>
           /\ sdat_call' = NoCall
    ]_vars

\* C18 witness: the rejection of a 12-byte input that does not start with
\* "CAT "
C18_NotIff ==
    /\ Failed
    /\ data_len >= 12
    /\ ~TagMatch(mem, 0, TagCAT)
    /\ rex.error = "Not an IFF file (no CAT header)"

---------------------------------------------------------------------------
(* Properties of the DWOP decoders (SpecDwop) *)

\* the uint32_t w is a power of two >= 1
PowerOfTwo(w) == w = MinInt32 \/ \E k \in 0..30 : w = 2^k

\* C5 (as the claim states it; the code violates it): after every sample
\* the decoder hands out (a sample stored by dwop_decode, a value returned by
\* stereo_decode_one for either channel) the range word rv of that channel
\* is a power of two >= 1.
C5_RvPowerOfTwo ==
    /\ (last.ch = "mono" /\ last.how = "ok") => PowerOfTwo(state.rv)
    /\ last.ch = "L" => PowerOfTwo(L.rv)
    /\ last.ch = "R" => PowerOfTwo(R.rv)

\* C6 (as the claim states it; the code violates it): after every decoded
\* sample the five energies of the channel are >= 0 as int32_t.
C6_EnergyNonNegative ==
    /\ (last.ch = "mono" /\ last.how = "ok") => \A i \in 1..5 : state.e[i] >= 0
    /\ (last.ch = "L" /\ last.how = "ok") => \A i \in 1..5 : L.e[i] >= 0
    /\ (last.ch = "R" /\ last.how = "ok") => \A i \in 1..5 : R.e[i] >= 0

\* C13 (as the claim states it; the code violates it): when the unary run of
\* a sample exceeds DWOP_MAX_UNARY zero bits the decode stops there: the call
\* has returned, and it returned the count of the samples (mono) or frames
\* (stereo) stored before that sample.
C13_UnaryCapAborts ==
    last.how = "unary" =>
        /\ dpc = "returned"
        /\ mode = "mono" => Len(out) = n
        /\ mode = "stereo" => Len(out) = 2 * n

\* the bit at index k of the stream data, most significant bit of a byte
\* first; 0 past the last byte
StreamBit(data, k) ==
    IF k >= 8 * Len(data) THEN 0
    ELSE (data[(k \div 8) + 1] \div 2^(7 - (k % 8))) % 2

\* the nbits bits from index k on as one big-endian, right-justified word
RECURSIVE StreamWord(_, _, _)
StreamWord(data, k, nbits) ==
    IF nbits = 0 THEN 0
    ELSE 2 * StreamWord(data, k, nbits - 1) + StreamBit(data, k + nbits - 1)

MaxBits == 9    \* widths 0..MaxBits asked of br_bits and sbr_bits

\* C19: in every state a reader of either decoder reaches, byte_pos <=
\* data_len; bit() returns the next bit of the stream, most significant bit
\* first, and 0 with the reader unchanged once the bytes are consumed;
\* bits(nbits) returns the next nbits bits as a big-endian right-justified
\* word and moves the reader by nbits bits (no further than the end), and
\* bits(0) returns 0 and leaves the reader as it was.
C19_BitReader ==
    LET Pos(r) == 8 * r.byte_pos - r.bit_pos
        After(r, k) == IF Pos(r) + k > 8 * r.data_len THEN 8 * r.data_len
                       ELSE Pos(r) + k
        Mono(r) ==
            /\ r.byte_pos <= r.data_len
            /\ BrBit(r).bit = StreamBit(r.data, Pos(r))
            /\ Pos(BrBit(r).st) = After(r, 1)
            /\ Exhausted(r) => BrBit(r) = [bit |-> 0, st |-> r]
            /\ BrBits(r, 0).v = 0 /\ BrBits(r, 0).st = r
            /\ \A k \in 1..MaxBits :
                   /\ BrBits(r, k).v = StreamWord(r.data, Pos(r), k)
                   /\ Pos(BrBits(r, k).st) = After(r, k)
        Stereo(r) ==
            /\ r.byte_pos <= r.data_len
            /\ SbrBit(r).bit = StreamBit(r.data, Pos(r))
            /\ Pos(SbrBit(r).br) = After(r, 1)
            /\ Exhausted(r) => SbrBit(r) = [bit |-> 0, br |-> r]
            /\ SbrBits(r, 0).v = 0 /\ SbrBits(r, 0).br = r
            /\ \A k \in 1..MaxBits :
                   /\ SbrBits(r, k).v = StreamWord(r.data, Pos(r), k)
                   /\ Pos(SbrBits(r, k).br) = After(r, k)
    IN /\ mode = "mono" => Mono(state)
       /\ mode = "stereo" => Stereo(br)

\* C19 witness: a reader of the mono decoder in the middle of a byte whose
\* next MaxBits bits run into the following byte and are not all 0
C19_MidByte ==
    /\ mode = "mono"
    /\ state.bit_pos \in 1..7
    /\ state.byte_pos < state.data_len
    /\ BrBits(state, MaxBits).v > 1
    /\ BrBits(state, MaxBits).st.byte_pos = state.byte_pos + 1

\* C20: every frame dwop_decode_stereo stores is (l, l + delta) with the sum
\* wrapped to int16, l the value stereo_decode_one returned for L and delta
\* the value it returned next for R, the second call reading on from where
\* the first left the shared reader; the call on L leaves every field of R
\* as it was and the call on R every field of L.
C20_StereoFrames ==
    [][mode = "stereo" =>
           /\ (dpc = "loop" /\ dpc' = "right") =>
                  /\ R' = R
                  /\ out' = out
                  /\ L' = StereoDecodeOne(L, br).ch
                  /\ br' = StereoDecodeOne(L, br).br
                  /\ last'.sample = StereoDecodeOne(L, br).sample
           /\ (dpc = "right" /\ dpc' = "loop") =>
                  /\ L' = L
                  /\ R' = StereoDecodeOne(R, br).ch
                  /\ br' = StereoDecodeOne(R, br).br
                  /\ last'.sample = StereoDecodeOne(R, br).sample
                  /\ Len(out') = Len(out) + 2
                  /\ SubSeq(out', 1, Len(out)) = out
                  /\ out'[Len(out) + 1] = last.sample
                  /\ out'[Len(out) + 2] =
                         ((last.sample + last'.sample + 32768) % 65536) - 32768
    ]_vars

\* C20 witness: a frame was stored whose sum l + delta left the int16 range
C20_WrappedFrame ==
    /\ mode = "stereo"
    /\ last.ch = "R"
    /\ last.how = "ok"
    /\ Len(out) >= 2
    /\ out[Len(out) - 1] + last.sample > 32767
    /\ out[Len(out)] < 0

---------------------------------------------------------------------------
(* Properties of the DWVW decoder (SpecDwvw, LiveDwvw) *)

\* C14: whenever dwvw_decode asks for the width modifier and the reservoir
\* could be loaded, the scan of the loaded bits f gives: dwm_maxsize zero bits
\* next -> the modifier is dwm_maxsize and exactly dwm_maxsize bits are
\* consumed, the bit after them left in the reservoir; the first 1 bit after
\* j < dwm_maxsize zero bits -> the modifier is j and j + 1 bits are
\* consumed; nothing but bit_count changes.  And every call of dwvw_decode
\* that was made comes to its end.
C14_ModifierScan ==
    LET Ahead(f, j) == BitOf(f.st.bits, f.st.bit_count - 1 - j)
        Scan(f, s, cap) ==
            /\ s.st = [f.st EXCEPT !.bit_count = s.st.bit_count]
            /\ (\A j \in 0..(cap - 1) : Ahead(f, j) = 0) =>
                   /\ s.value = cap
                   /\ s.st.bit_count = f.st.bit_count - cap
            /\ \A j \in 0..(cap - 1) :
                   (Ahead(f, j) = 1 /\ \A i \in 0..(j - 1) : Ahead(f, i) = 0) =>
                       /\ s.value = j
                       /\ s.st.bit_count = f.st.bit_count - (j + 1)
        Load(st, f) == ~f.eof => Scan(f, DwvwLoadBits(st, -1), st.dwm_maxsize)
    IN /\ [](wpc \in {"ready", "loop"} =>
                Load(wx.st, DwvwFill(wx.st, wx.st.dwm_maxsize)))
       /\ (wpc = "loop") ~> (wpc # "loop")

\* C14 witness: a call has returned that found, at the end of a 16-bit
\* input whose last byte is 0, a modifier of dwm_maxsize = 8 zero bits and
\* nothing after them
C14_CapAtEnd ==
    /\ wpc = "ready"
    /\ wcalls # <<>>
    /\ wx.st.bit_width = 16
    /\ wx.st.data_len >= 2
    /\ wx.st.data[wx.st.data_len] = 0
    /\ wx.how = "first"
    /\ DwvwDrained(wx.st)

\* C15 (as the claim states it; the code violates it): two calls of
\* dwvw_decode on one state, for k and then for n - k samples, return counts
\* that add up to the count of one call for n samples from dwvw_init, and
\* the samples they return are, one call after the other, the samples that
\* one call returns.
C15_SeamlessCalls ==
    LET Same(one) ==
            /\ wcalls[1].count + wcalls[2].count = one.count
            /\ SubSeq(wcalls[1].out, 1, wcalls[1].count)
                   \o SubSeq(wcalls[2].out, 1, wcalls[2].count)
               = SubSeq(one.out, 1, one.count)
    IN (wpc = "ready" /\ Len(wcalls) = 2) =>
           Same(DwvwDecode(DwvwInit(wx.st.data, wx.st.data_len,
                                    wx.st.bit_width),
                           wcalls[1].asked + wcalls[2].asked))

---------------------------------------------------------------------------
(* Properties of two passes (SpecTwice) *)

\* C12 (as the claim states it; the code violates it): two calls of
\* rex_parse on the same input bytes that both return, and in neither of
\* which malloc refused a block, return the same value, the same sample
\* count (the samples themselves are not kept by this model).
C12_SamePasses ==
    (pc = "returned" /\ first.done /\ ~first.refused /\ ~refused) =>
        /\ ret = first.ret
        /\ rex.pcm_samples = first.pcm_samples

---------------------------------------------------------------------------
(* Properties of rexwav_parse (SpecWav) *)

\* C16 (as the claim states it; the code violates it): an input shorter than
\* 64 bytes, with a magic other than RXWV, a version other than 1, a
\* slice_count above 256 or fewer than 64 + 8 * slice_count + 2 * channels *
\* total_frames bytes (the sizes taken as numbers, channels and total_frames
\* any 32-bit values) is rejected at once: rexwav_parse gets no further than
\* its checks and returns -1 with an error message, pcm_data NULL and no
\* block allocated; and no byte at an index >= data_len is read.
C16_WavRejects ==
    LET Short(k) == WLt(W64(data_len, k), ExpectedSize(mem, k))
        Bad == \/ data_len < 64
               \/ ~TagMatch(mem, 0, MagicRXWV)
               \/ WavVersion(mem) # 1
               \/ ULt(REX_MAX_SLICES, WavSliceCount(mem))
               \/ Short(SizeBytes + 2)
    IN /\ Bad => /\ pc \in {"entry", "returned"}
                 /\ pc = "returned" =>
                        /\ ret = -1
                        /\ rex.error # ""
                        /\ rex.pcm_data = NULL
                        /\ live = 0
       /\ ~oob
       /\ pc # "fault"

\* C17 (as the claim states it; the code violates it): when rexwav_parse has
\* returned 0, every slice of the record has sample_offset + sample_length
\* <= pcm_samples, the fields taken as the unsigned numbers the file holds.
C17_WavSlicesInRange ==
    LET k == SizeBytes
        InRange(s) ==
            ~WLt(W64(rex.pcm_samples, k),
                 WAdd(W64(s.sample_offset, k), W64(s.sample_length, k)))
    IN (pc = "returned" /\ ret = 0) =>
           \A i \in 1..rex.slice_count : InRange(rex.slices[i])


---------------------------------------------------------------------------
(* Properties of rex_parse, continued (Spec) *)

C22_FreeIdempotent ==
    [][frees' = frees + 1 =>
           /\ rex'.pcm_data = NULL
           /\ rex'.pcm_samples = 0
           /\ rex'.slice_count = 0
           /\ live' = 0
           /\ frees >= 1 => (rex' = rex /\ live' = live)]_vars

\* C22 witness: rex_free was called twice after a rex_parse that returned -1
C22_FreedTwiceAfterFailure ==
    /\ pc = "freed"
    /\ frees = 2
    /\ ret = -1
    /\ rex.error # ""


---------------------------------------------------------------------------
(* Properties of dwop.c, continued (SpecDwop) *)

\* the dwop_state_t holding the channel ch and the reader b
MonoOf(ch, b) ==
    [data |-> b.data, data_len |-> b.data_len, byte_pos |-> b.byte_pos,
     bit_pos |-> b.bit_pos, cur |-> b.cur,
     S |-> ch.S, e |-> ch.e, rv |-> ch.rv, ba |-> ch.ba]

\* the channel and the reader of the dwop_state_t st
ChannelOf(st) == [S |-> st.S, e |-> st.e, rv |-> st.rv, ba |-> st.ba]

ReaderOf(st) ==
    [data |-> st.data, data_len |-> st.data_len, byte_pos |-> st.byte_pos,
     bit_pos |-> st.bit_pos, cur |-> st.cur]

\* a call of stereo_decode_one and an iteration of dwop_decode's loop agree:
\* same reader afterwards, same channel state, same sample, same overflows
SameStep(s, m) ==
    /\ (s.how = "ok") = (m.how = "ok")
    /\ s.how = "ok" =>
           /\ ReaderOf(m.st) = s.br
           /\ ChannelOf(m.st) = s.ch
           /\ m.sample = s.sample
           /\ m.sov = s.sov

\* C23: from equal channel state (S, e, rv, ba) and equal reader position one
\* call of stereo_decode_one and one iteration of dwop_decode's loop consume
\* the same bits, leave the same state and give the same sample, on every
\* step that hits neither the unary cap nor the overflow of rv.  Checked at
\* every channel state and reader position that either decoder reaches.
C23_StereoStepIsMonoStep ==
    /\ mode = "stereo" /\ dpc = "loop" =>
           SameStep(StereoDecodeOne(L, br), DwopDecodeSample(MonoOf(L, br)))
    /\ mode = "stereo" /\ dpc = "right" =>
           SameStep(StereoDecodeOne(R, br), DwopDecodeSample(MonoOf(R, br)))
    /\ mode = "mono" /\ dpc = "loop" =>
           SameStep(StereoDecodeOne(ChannelOf(state), ReaderOf(state)),
                    DwopDecodeSample(state))

\* C23 witness: the left channel, one frame already decoded, is about to
\* decode a nonzero sample from the middle of a byte
C23_LeftStepMidByte ==
    /\ mode = "stereo" /\ dpc = "loop" /\ n >= 1
    /\ br.bit_pos # 0
    /\ StereoDecodeOne(L, br).how = "ok"
    /\ StereoDecodeOne(L, br).sample # 0
    /\ DwopDecodeSample(MonoOf(L, br)).sample = StereoDecodeOne(L, br).sample

\* the loops of the sample that the channel (e, rv, ba) decodes next from the
\* reader st: the unary loop has run at most DWOP_MAX_UNARY + 1 times, the
\* grow loop at most 32 times (the last one leaving with rv = 0), the shrink
\* loop at least once and at most 32 times
LoopsBounded(st, e, rv, ba) ==
    LET Range(u, g) ==
            IF UGe(u.cs, rv)
                THEN g.nb - ba \in 0..31
            ELSE (ba + 1) - g.nb \in 1..32 /\ ~g.abort
        Quotient(u) ==
            /\ u.uc <= DWOP_MAX_UNARY + 1
            /\ u.how \in {"one", "cap"}
            /\ u.how = "one" => Range(u, RangeAdapt(u.cs, rv, ba))
    IN Quotient(Unary(st, 0, QuantStep(e[MinEnergy(e) + 1]), 7, 0))

\* the number of samples in out[] is the one the calls so far have written
OutWritten ==
    /\ n \in 0..max_samples
    /\ Len(out) = IF mode = "mono" THEN n ELSE 2 * n

DwopLoopsEnd ==
    /\ OutWritten
    /\ mode = "mono" /\ dpc = "loop" =>
           LoopsBounded(state, state.e, state.rv, state.ba)
    /\ mode = "stereo" /\ dpc = "loop" => LoopsBounded(MonoOf(L, br), L.e, L.rv, L.ba)
    /\ mode = "stereo" /\ dpc = "right" => LoopsBounded(MonoOf(R, br), R.e, R.rv, R.ba)

\* C24: dwop_decode and dwop_decode_stereo terminate on every finite input
\* and every max_samples >= 0: the unary, grow and shrink loops of every
\* sample end after a bounded number of iterations (the shrink loop also
\* when cs = 0), the call comes to its return (or to the trap of a signed
\* overflow), and the count n it returns satisfies 0 <= n <= max_samples
\* with exactly the samples of out[0..n) written.
C24_DecodersTerminate ==
    /\ []DwopLoopsEnd
    /\ <>(dpc \in {"returned", "trap"})
    /\ [](dpc = "returned" => OutWritten)

\* C24 witness: a mono call that entered the shrink loop with cs = 0 has
\* come out of it and returned
C24_ShrunkFromZero ==
    /\ mode = "mono" /\ dpc = "returned" /\ n >= 1
    /\ state.data = ShrinkZeroInput
    /\ state.rv = 1
    /\ state.ba < 0

\* the uint32_t value of the word x as <<high bit, low 31 bits>>, and the
\* order of uint32_t on such pairs
UKey(x) == IF x < 0 THEN <<1, (x + 2147483647) + 1>> ELSE <<0, x>>

UKeyLess(a, b) == a[1] < b[1] \/ (a[1] = b[1] /\ a[2] < b[2])

\* slot p holds the least energy of e as uint32_t, and no slot before it
\* holds the same
LowestMinimum(e, p) ==
    /\ p \in 0..4
    /\ \A i \in 0..4 : ~UKeyLess(UKey(e[i + 1]), UKey(e[p + 1]))
    /\ \A i \in 0..4 : i < p => e[i + 1] # e[p + 1]

\* (x * 3 + 0x24) >> 7 of the uint32_t x on 16-bit halves
StepOnHalves(x) ==
    LET lo == (x % 65536) * 3 + 36
        hi == ((x \div 65536) % 65536) * 3 + lo \div 65536
    IN (hi % 65536) * 512 + (lo % 65536) \div 128

\* T is S after the update of the switch case `order` on the snapshot o,
\* row by row of lines 158-194 with d the entry the case stores d in
UpdateOfOrder(o, T, order) ==
    CASE order = 0 -> /\ T[2] = Sub32(T[1], o[1]) /\ T[3] = Sub32(T[2], o[2])
                      /\ T[4] = Sub32(T[3], o[3]) /\ T[5] = Sub32(T[4], o[4])
      [] order = 1 -> /\ T[1] = Add32(o[1], T[2]) /\ T[3] = Sub32(T[2], o[2])
                      /\ T[4] = Sub32(T[3], o[3]) /\ T[5] = Sub32(T[4], o[4])
      [] order = 4 -> /\ T[2] = Add32(o[2], T[3]) /\ T[1] = Add32(o[1], T[2])
                      /\ T[4] = Sub32(T[3], o[3]) /\ T[5] = Sub32(T[4], o[4])
      [] order = 2 -> /\ T[3] = Add32(o[3], T[4]) /\ T[2] = Add32(o[2], T[3])
                      /\ T[1] = Add32(o[1], T[2]) /\ T[5] = Sub32(T[4], o[4])
      [] order = 3 -> /\ T[4] = Add32(o[4], T[5]) /\ T[3] = Add32(o[3], T[4])
                      /\ T[2] = Add32(o[2], T[3]) /\ T[1] = Add32(o[1], T[2])

\* the sample that the channel ch decodes, with the result r, selects its
\* predictor and its step as C25 says
SelectsPredictor(ch, r) ==
    /\ LowestMinimum(ch.e, MinEnergy(ch.e))
    /\ QuantStep(ch.e[MinEnergy(ch.e) + 1]) = StepOnHalves(ch.e[MinEnergy(ch.e) + 1])
    /\ r.how = "ok" =>
           UpdateOfOrder(ch.S, r.S, <<0, 1, 4, 2, 3>>[MinEnergy(ch.e) + 1])

RECURSIVE Doubled(_, _)
Doubled(x, k) == IF k = 0 THEN x ELSE Doubled(Shl1(x), k - 1)

\* the channel after a sample, b, against the channel before it, a: the bit
\* budget has moved by one for every doubling and every halving of rv
BudgetFollowsRange(a, b) ==
    /\ b.rv # 0
    /\ IF b.ba >= a.ba THEN b.rv = Doubled(a.rv, b.ba - a.ba)
       ELSE a.rv = Doubled(b.rv, a.ba - b.ba)

\* the step decodes a sample of the channel a, leaving it as b with the
\* verdict how, or does not touch the channel
BudgetStep(a, b, decodes, how) ==
    IF decodes /\ how = "ok" THEN BudgetFollowsRange(a, b) ELSE b.ba = a.ba

\* C26: the bit budget ba is carried from one sample to the next of the same
\* channel and never reset between samples: a sample starts with nb = ba as
\* the previous sample of the channel left it and stores ba <- nb, where nb
\* has grown by one per doubling of rv and shrunk by one per halving; no
\* other step, and no sample of the other channel, changes ba.
C26_BudgetCarried ==
    [][/\ BudgetStep(state, state', mode = "mono" /\ n' = n + 1, last'.how)
       /\ BudgetStep(L, L', mode = "stereo" /\ dpc = "loop" /\ dpc' = "right",
                     last'.how)
       /\ BudgetStep(R, R', mode = "stereo" /\ dpc = "right" /\ dpc' = "loop",
                     last'.how)]_vars

\* C26 witness: the budget that the first sample of MixedSignInput raised
\* from 0 to 27 has been taken down to 24 by the second and to 23 by the
\* third, rv following from 2^28 to 2^24
C26_BudgetTakenDown ==
    /\ mode = "mono" /\ n = 3 /\ last.how = "ok"
    /\ state.data = MixedSignInput
    /\ state.ba = 23
    /\ state.rv = 2^24

\* steps 1-4 of the sample that the dwop_state_t st decodes next: val, or -1
\* when the sample is given up at the unary cap or at rv = 0 (val is then
\* not computed)
DecodedVal(st) ==
    LET Code(u, g) ==
            IF g.abort THEN [ok |-> FALSE, val |-> 0]
            ELSE [ok |-> TRUE,
                  val |-> Add32(u.acc, Remainder(u.st, u.cs, g.rv, g.nb).rem)]
        Quotient(u) ==
            IF u.how = "cap" THEN [ok |-> FALSE, val |-> 0]
            ELSE Code(u, RangeAdapt(u.cs, st.rv, st.ba))
    IN Quotient(Unary(st, 0, QuantStep(st.e[MinEnergy(st.e) + 1]), 7, 0))

\* bit i (0..31) of the 32-bit word x
Bit32(x, i) == IF i = 31 THEN (IF x < 0 THEN 1 ELSE 0) ELSE (x \div 2^i) % 2

\* a XOR b on 32-bit words, bit by bit from bit i up
RECURSIVE Xor32From(_, _, _)
Xor32From(a, b, i) ==
    IF i = 31
        THEN (IF Bit32(a, 31) # Bit32(b, 31) THEN (-2147483647) - 1 ELSE 0)
    ELSE (IF Bit32(a, i) # Bit32(b, i) THEN 2^i ELSE 0) + Xor32From(a, b, i + 1)

\* the value of int16_t that x is truncated to
Trunc16(x) == ((x + 32768) % 65536) - 32768

\* the sample that st decodes next, with the result r, un-folds val and
\* emits S[0] as C27 says
UnfoldsAndEmits(st, v, r) ==
    r.how = "ok" =>
        LET d == r.S[PredPos(PRED_MAP[MinEnergy(st.e) + 1]) + 1]
        IN /\ v.ok
           /\ d = Xor32From(v.val, -(v.val % 2), 0)
           /\ v.val % 2 = 0 => d = v.val
           /\ v.val % 2 = 1 => d = Sub32(Sub32(0, v.val), 1)
           /\ r.sample = Trunc16(r.S[1] \div 2)

\* C27: the zigzag un-folding yields d = val XOR (-(val AND 1)) in 32-bit
\* two's complement, that is d = val for even val and d = -val - 1 for odd
\* val, with no halving; the emitted sample is S[0] >> 1 (arithmetic shift)
\* truncated to int16.
C27_ZigzagAndOutput ==
    /\ mode = "mono" /\ dpc = "loop" /\ n < max_samples =>
           UnfoldsAndEmits(state, DecodedVal(state),
               [how |-> DwopDecodeSample(state).how,
                S |-> DwopDecodeSample(state).st.S,
                sample |-> DwopDecodeSample(state).sample])
    /\ mode = "stereo" /\ dpc = "loop" /\ n < max_samples =>
           UnfoldsAndEmits(MonoOf(L, br), DecodedVal(MonoOf(L, br)),
               [how |-> StereoDecodeOne(L, br).how,
                S |-> StereoDecodeOne(L, br).ch.S,
                sample |-> StereoDecodeOne(L, br).sample])
    /\ mode = "stereo" /\ dpc = "right" =>
           UnfoldsAndEmits(MonoOf(R, br), DecodedVal(MonoOf(R, br)),
               [how |-> StereoDecodeOne(R, br).how,
                S |-> StereoDecodeOne(R, br).ch.S,
                sample |-> StereoDecodeOne(R, br).sample])
    /\ mode = "mono" /\ last.how = "ok" =>
           out[Len(out)] = Trunc16(state.S[1] \div 2)

\* C27 witness: a sample with odd val has been un-folded to a negative d and
\* S[0] >> 1 does not fit int16, so that the truncation changes it
C27_OddValTruncated ==
    /\ mode = "mono" /\ dpc = "loop" /\ n < max_samples
    /\ DecodedVal(state).ok
    /\ DecodedVal(state).val % 2 = 1
    /\ DwopDecodeSample(state).how = "ok"
    /\ DwopDecodeSample(state).st.S[1] < -65536
    /\ DwopDecodeSample(state).sample # DwopDecodeSample(state).st.S[1] \div 2

---------------------------------------------------------------------------
(* Properties of rex_parse: chunks that are skipped (Spec) *)

\* the walk stands at a chunk of the tag `tag` whose length field is below min
ShortChunk(tag, min) == AtChunk(tag) /\ ULt(ChunkLen(Top), min)

\* the walk stands at a chunk that C28 says is skipped
AtSkippedChunk ==
    \/ ShortChunk(TagGLOB, 20)
    \/ ShortChunk(TagHEAD, 6)
    \/ ShortChunk(TagSINF, 10)
    \/ ShortChunk(TagSLCE, 8)
    \/ /\ InChunk
       /\ \A tag \in {TagCAT, TagGLOB, TagHEAD, TagSINF, TagSLCE, TagSDAT} :
              ~TagMatch(mem, Off, tag)

\* the walk stands at a SINF chunk of 10 bytes or more, all of them mapped
AtFullSinf == AtChunk(TagSINF) /\ UGe(ChunkLen(Top), 10) /\ PayloadMapped(10)

\* C28: a GLOB chunk shorter than 20 bytes, a HEAD shorter than 6, a SINF
\* shorter than 10, an SLCE shorter than 8 and any chunk with an
\* unrecognized tag change no field of the record and do not stop the walk,
\* which goes on behind the chunk; a SINF whose channel byte is neither 1 nor
\* 2 leaves channels unchanged, and a SINF sample rate of 0 leaves
\* sample_rate unchanged.
C28_MalformedChunksSkipped ==
    [][/\ AtSkippedChunk =>
              /\ rex' = rex
              /\ pc' = "walk"
              /\ stack' = Advanced(stack)
       /\ AtFullSinf /\ pc' = "walk" =>
              /\ mem[Off + 9] \notin {1, 2} => rex'.channels = rex.channels
              /\ mem[Off + 13] = 0 /\ mem[Off + 14] = 0 =>
                     rex'.sample_rate = rex.sample_rate]_vars

\* C28 witness: ShortChunksFile has been walked to its end; the four short
\* chunks and the unknown one have left the record as rex_parse set it up,
\* the SINF behind them has set the frame total only, and the slice and the
\* audio behind that were taken
C28_WalkedPastShortChunks ==
    /\ pc = "returned" /\ ret = 0
    /\ SubSeq(mem, 1, data_len) = ShortChunksFile
    /\ rex.bars = 0 /\ rex.bytes_per_sample = 0
    /\ rex.channels = 1 /\ rex.sample_rate = 44100
    /\ rex.total_sample_length = 2
    /\ rex.slice_count = 1
    /\ rex.pcm_samples = 2

---------------------------------------------------------------------------
(* Properties of the DWVW decoder, continued (SpecDwvw) *)

\* lines 115-131 of the iteration that starts from the state st with the
\* locals c: [on, st, modifier, operand, short]; on says that the iteration
\* gets as far as the width update, modifier is the signed width modifier,
\* operand the left operand of the % of line 131, short that the load of
\* the sign bit of the modifier found the input exhausted
DwvwWidthUpdate(st, c) ==
    LET Stopped == [on |-> FALSE, st |-> st, modifier |-> 0, operand |-> 0,
                    short |-> FALSE]
        Signed(s2, m, short) ==
            [on |-> TRUE, st |-> s2, modifier |-> m,
             operand |-> c.delta_width + m + st.bit_width, short |-> short]
        Sign(g, m) ==
            Signed(g.st, IF g.value # 0 THEN -m.value ELSE m.value, g.value < 0)
        Modifier(m) ==
            IF m.value < 0 \/ (DwvwDrained(m.st) /\ c.count = 0) THEN Stopped
            ELSE IF m.value # 0 THEN Sign(DwvwLoadBits(m.st, 1), m)
            ELSE Signed(m.st, 0, FALSE)
    IN Modifier(DwvwLoadBits(st, -1))

\* the width w and the running sample s are in the ranges of the width W
InDwvwRange(st, w, s) ==
    /\ w \in 0..(st.bit_width - 1)
    /\ s >= -st.max_delta
    /\ s < st.max_delta

\* the width update of the next iteration takes the modulus of a number
\* that is not negative, the modifier being in [-W/2, W/2]
WidthUpdateSound(u, W) ==
    u.on => /\ u.modifier >= -(W \div 2)
            /\ u.modifier <= W \div 2
            /\ u.operand >= 0

\* C29: the DWVW delta width stays in [0, W-1] after every sample
\* (w <- (w + m + W) mod W with m in [-W/2, W/2] never takes the modulus of
\* a negative number), and the running sample stays in
\* [-max_delta, max_delta) after the single +/- span wrap, for every input
\* stream including one that runs out in the middle of a sample.
C29_WidthAndSampleInRange ==
    /\ InDwvwRange(wx.st, wx.st.last_delta_width, wx.st.last_sample)
    /\ wpc = "loop" => InDwvwRange(wx.st, wx.delta_width, wx.sample)
    /\ wpc = "loop" /\ DwvwDecodeCont(wx) =>
           WidthUpdateSound(DwvwWidthUpdate(wx.st, wx), wx.st.bit_width)

\* the iteration of the width update u runs out of input at the load of its
\* magnitude bits (line 137)
RunsOutAtMagnitude(u, W) ==
    /\ u.on
    /\ u.operand % W # 0
    /\ DwvwLoadBits(u.st, (u.operand % W) - 1).value = -1

\* C29 witness: a sample has been stored, and the next one, whose width
\* modifier is negative, runs out of input at its magnitude bits
C29_RunsOutMidSample ==
    /\ wpc = "loop" /\ DwvwDecodeCont(wx)
    /\ wx.out # <<>>
    /\ DwvwWidthUpdate(wx.st, wx).modifier < 0
    /\ RunsOutAtMagnitude(DwvwWidthUpdate(wx.st, wx), wx.st.bit_width)

\* bit j (from 0) of what the state st has not handed out yet: the bits of
\* the reservoir, then the bytes not yet loaded, then zero bytes
DwvwStreamBit(st, j) ==
    IF j < st.bit_count THEN BitOf(st.bits, st.bit_count - 1 - j)
    ELSE IF st.byte_pos + (j - st.bit_count) \div 8 < st.data_len
        THEN BitOf(Rd(st.data, st.byte_pos + (j - st.bit_count) \div 8),
                   7 - ((j - st.bit_count) % 8))
    ELSE 0

\* the first k of these bits as a number, most significant first
RECURSIVE DwvwStreamWord(_, _)
DwvwStreamWord(st, k) ==
    IF k = 0 THEN 0
    ELSE 2 * DwvwStreamWord(st, k - 1) + DwvwStreamBit(st, k - 1)

\* fewer than k bits are left in the reservoir and the input together
Starved(st, k) == st.bit_count + 8 * (st.data_len - st.byte_pos) < k

\* dwvw_load_bits(st, k) on exhausted input: -1 and the state as it was
\* below 8 bits, the value over zero bytes from 8 bits on
LoadAtExhaustion(st, k, f) ==
    Starved(st, k) =>
        IF k < 8 THEN f.value = -1 /\ f.st = st
        ELSE /\ f.value = DwvwStreamWord(st, k)
             /\ f.st.byte_pos = st.data_len
             /\ f.st.bit_count \in 0..7
             /\ (f.st.bit_count + k - st.bit_count) % 8 = 0

LoadsAtExhaustion(st) ==
    \A k \in 1..MaxBits : LoadAtExhaustion(st, k, DwvwLoadBits(st, k))

\* a step of dwvw_decode stops the loop where C30 says it stops
StopsAtEndOfStream ==
    /\ wpc = "loop" /\ DwvwDecodeCont(wx) /\ wpc' = "loop" =>
           /\ DwvwLoadBits(wx.st, -1).value < 0 =>
                  /\ ~DwvwDecodeCont(wx')
                  /\ wx'.out = wx.out
                  /\ wx'.count = Len(wx.out)
           /\ DwvwDrained(wx'.st) => ~DwvwDecodeCont(wx')
    /\ wpc = "loop" /\ wpc' = "ready" =>
           wcalls'[Len(wcalls')].count = wx.count

\* C30: dwvw_load_bits, on input exhaustion, pads the reservoir with zero
\* bytes when the width asked for is 8 or more and returns -1 when it is
\* below 8; when the load of the width modifier returns a negative value
\* dwvw_decode stops and returns the count of the samples completed before
\* it, and it also stops at the tail of an iteration once all input bytes
\* are consumed and the reservoir holds zero bits.
C30_EndOfStream ==
    /\ []LoadsAtExhaustion(wx.st)
    /\ [][StopsAtEndOfStream]_vars

\* C30 witness: a call has returned one sample, stopped by the load of the
\* width modifier of the second, with bits left in the reservoir
C30_StoppedByModifier ==
    /\ wpc = "ready" /\ wcalls # <<>>
    /\ wcalls[Len(wcalls)].count = 1
    /\ wcalls[Len(wcalls)].asked >= 2
    /\ wx.how = "eof"
    /\ wx.st.bit_count > 0

---------------------------------------------------------------------------
(* Properties of dwop.c, third part (SpecDwop) *)

\* T is a difference chain over the snapshot o: T[i+1] = T[i] - o[i] in
\* 32-bit wrapping arithmetic, for i in 0..3
DifferenceChain(o, T) == \A i \in 1..4 : T[i + 1] = Sub32(T[i], o[i])

\* the step decodes a sample of the channel that was a and is b
ChainStep(a, b, decodes, how) ==
    decodes /\ how = "ok" => DifferenceChain(a.S, b.S)

\* C31: after every decoded DWOP sample the predictor accumulators form a
\* consistent difference chain in 32-bit wrapping arithmetic: for i in 0..3,
\* new S[i+1] = new S[i] - old S[i], whichever of the five update orders was
\* selected.
C31_DifferenceChain ==
    [][/\ ChainStep(state, state', mode = "mono" /\ n' = n + 1, last'.how)
       /\ ChainStep(L, L', mode = "stereo" /\ dpc = "loop" /\ dpc' = "right",
                    last'.how)
       /\ ChainStep(R, R', mode = "stereo" /\ dpc = "right" /\ dpc' = "loop",
                    last'.how)]_vars

\* C31 witness: the third sample of an input of RemapInputs, decoded with an
\* order other than 0, has been stored and no accumulator is zero
C31_ChainAfterHigherOrder ==
    /\ mode = "mono" /\ n = 3 /\ last.how = "ok"
    /\ state.data \in RemapInputs
    /\ \A i \in 1..5 : state.S[i] # 0

\* the range word and the bit budget of the channel ch are coupled
Coupled(ch) ==
    /\ ch.ba >= -1
    /\ ch.ba <= 30
    /\ ch.rv = Doubled(1, ch.ba + 1)

\* C32: after every decoded DWOP sample the range word and the bit budget of
\* a channel stay coupled: rv = 2^(ba+1) with ba >= -1, starting from
\* rv = 2, ba = 0, through any sequence of grow and shrink steps.  For the
\* mono decoder the states are those before the first sample and after a
\* sample that was stored; for the stereo decoder those between two frames.
C32_RangeCoupled ==
    /\ mode = "mono" /\ (last = NoSample \/ last.how = "ok") => Coupled(state)
    /\ mode = "stereo" /\ dpc = "loop" => Coupled(L) /\ Coupled(R)

\* C32 for the mono decoder alone
C32_MonoCoupled ==
    mode = "mono" /\ (last = NoSample \/ last.how = "ok") => Coupled(state)

\* every energy estimator of e is at the floor or above it
AtLeastFloor(e) == \A i \in 1..5 : e[i] >= 31

\* the step decodes a sample of the channel that was a and is b: from
\* energies at the floor or above, with no overflow in the energy update,
\* the energies are at the floor or above again
FloorStep(a, b, decodes, how) ==
    decodes /\ how = "ok" /\ AtLeastFloor(a.e) /\ ~EnergySov(a.e, b.S)
        => AtLeastFloor(b.e)

\* the least energy of e as uint32_t
LeastEnergy(e) == e[MinEnergy(e) + 1]

\* x * 3 + 0x24 does not wrap in uint32_t: x is at most 1431655753
Unwrapped(x) == x >= 0 /\ x <= 1431655753

\* the quantizer step of the next sample of the channel ch is at least 1
\* when its energies are at the floor or above and the least one does not
\* wrap the product
StepFromFloor(ch) ==
    /\ AtLeastFloor(ch.e) /\ Unwrapped(LeastEnergy(ch.e))
           => QuantStep(LeastEnergy(ch.e)) >= 1
    /\ QuantStep(1431655753) >= 1
    /\ QuantStep(1431655753 + 1) = 0

\* C33, as amended: as long as no 32-bit overflow occurs in the energy
\* update, every energy estimator satisfies e[i] >= 31 after every sample;
\* the quantizer step at the start of a sample is >= 1 as long as the least
\* energy is at most 1431655753, the largest x with 3x + 0x24 < 2^32.
C33_EnergyFloor ==
    /\ [][/\ FloorStep(state, state', mode = "mono" /\ n' = n + 1, last'.how)
          /\ FloorStep(L, L', mode = "stereo" /\ dpc = "loop" /\ dpc' = "right",
                       last'.how)
          /\ FloorStep(R, R', mode = "stereo" /\ dpc = "right" /\ dpc' = "loop",
                       last'.how)]_vars
    /\ [](StepFromFloor(state) /\ StepFromFloor(L) /\ StepFromFloor(R))

\* C33 witness: silence has taken the energies down to the floor, where
\* they have stayed for one more sample
C33_AtTheFloor ==
    /\ mode = "mono" /\ n = SilenceSamples /\ last.how = "ok"
    /\ state.data = SilenceInput
    /\ \A i \in 1..5 : state.e[i] = 31
    /\ QuantStep(LeastEnergy(state.e)) = 1

\* C33 as stated, on the first sample of the mono decoder, where the whole
\* history is in the state: with no overflow in the energy update of that
\* sample, energies of 31 or more give a quantizer step of 1 or more at the
\* start of the second
C33_StepAtLeastOne ==
    mode = "mono" /\ n = 1 /\ last.how = "ok"
        /\ ~EnergySov(SchInit.e, state.S) /\ ~PredSov(SchInit.S, state.S[1], 0)
        /\ AtLeastFloor(state.e)
    => QuantStep(LeastEnergy(state.e)) >= 1

---------------------------------------------------------------------------
(* Properties of rex_parser.c, third part (Spec) *)

\* C34: rex_parse returns 0 only with an empty error string and -1 only with
\* one that is not empty, also when an SDAT chunk that failed is followed by
\* one that decodes.
C34_ErrorIffFailure ==
    pc = "returned" => (ret = 0 <=> rex.error = "")

\* the int16_t elements the decoder stored in pcm_data: pcm_samples frames of
\* one element, or of two if decode_sdat took the stereo branch
ElementsDecoded == rex.pcm_samples * (IF sdat_call.is_stereo THEN 2 ELSE 1)

\* C35: when rex_parse succeeds, pcm_channels equals channels and the buffer
\* holds pcm_samples * channels elements, whatever the order of the SINF and
\* SDAT chunks.
C35_ChannelsAgree ==
    Succeeded => /\ rex.pcm_channels = rex.channels
                 /\ ElementsDecoded = rex.pcm_samples * rex.channels

---------------------------------------------------------------------------
(* rex_plugin.c: the envelope, the voices and the plugin instance.  The    *)
(* float fields are held as follows.  An envelope level is in fixed point, *)
(* EnvOne to 1.0f.  The envelope times stay at the defaults of             *)
(* create_instance (attack, decay and release 0, sustain 1.0), so every    *)
(* segment runs at ADSR_MIN_TIME = 0.001 s, which is 44.1 samples.  The    *)
(* transposes offered are 0 and 12 semitones, so the playback rate is 1.0  *)
(* or 2.0 and a position is a whole number of samples.  The samples mixed  *)
(* into the output buffer are not held; the indexes read from pcm_data are.*)

MAX_VOICES == 16
FIRST_NOTE == 36
LOAD_DEBOUNCE_BLOCKS == 3
MOVE_FRAMES_PER_BLOCK == 128

ADSR_IDLE == 0
ADSR_ATTACK == 1
ADSR_DECAY == 2
ADSR_SUSTAIN == 3
ADSR_RELEASE == 4

EnvOne == 1000000
EnvSustain == EnvOne

\* x / (rate * sample_rate) at rate = ADSR_MIN_TIME and 44100 Hz: x / 44.1
PerMinTime(x) == (x * 10) \div 441

\* adsr_trigger
AdsrTrigger(e) == [e EXCEPT !.stage = ADSR_ATTACK]

\* adsr_release
AdsrRelease(e) ==
    IF e.stage # ADSR_IDLE THEN [e EXCEPT !.stage = ADSR_RELEASE] ELSE e

\* AdsrProcess whose release stage may fall back to sustain
AdsrProcessReleaseToSustain(e) ==
    IF e.stage = ADSR_RELEASE
        THEN [value |-> EnvSustain, stage |-> ADSR_SUSTAIN]
    ELSE [e EXCEPT !.value = 0]

\* adsr_process: the envelope after one sample
AdsrProcess(e) ==
    IF e.stage = ADSR_ATTACK
        THEN IF e.value + PerMinTime(EnvOne) >= EnvOne
                 THEN [value |-> EnvOne, stage |-> ADSR_DECAY]
             ELSE [e EXCEPT !.value = @ + PerMinTime(EnvOne)]
    ELSE IF e.stage = ADSR_DECAY
        THEN IF e.value - PerMinTime(EnvOne - EnvSustain) <= EnvSustain
                 THEN [value |-> EnvSustain, stage |-> ADSR_SUSTAIN]
             ELSE [e EXCEPT !.value = @ - PerMinTime(EnvOne - EnvSustain)]
    ELSE IF e.stage = ADSR_SUSTAIN
        THEN [e EXCEPT !.value = EnvSustain]
    ELSE IF e.stage = ADSR_RELEASE
        THEN IF e.value - PerMinTime(e.value) < EnvOne \div 10000
                 THEN [value |-> 0, stage |-> ADSR_IDLE]
             ELSE [e EXCEPT !.value = @ - PerMinTime(@)]
    ELSE [e EXCEPT !.value = 0]

VoiceIds == 0..(MAX_VOICES - 1)

\* a voice_t after calloc
VoiceZero ==
    [active |-> 0, slice_index |-> 0, position |-> 0, age |-> 0, note |-> 0,
     velocity |-> 0, gate |-> 0, env |-> [value |-> 0, stage |-> ADSR_IDLE]]

\* for (i...) voices[i].active = 0
StopAll(voices) == [i \in VoiceIds |-> [voices[i] EXCEPT !.active = 0]]

\* FindVoice taking the voice of the greatest age when none is free
RECURSIVE FindVoiceNewest(_, _, _, _)
FindVoiceNewest(voices, i, best, newest_age) ==
    IF i >= MAX_VOICES THEN best
    ELSE IF voices[i].active = 0 THEN i
    ELSE IF best < 0 \/ ULt(newest_age, voices[i].age)
        THEN FindVoiceNewest(voices, i + 1, i, voices[i].age)
    ELSE FindVoiceNewest(voices, i + 1, best, newest_age)

\* v2_on_midi, the search for a voice (lines 524-537) from index i on: the
\* first inactive voice, or the one of the least age
RECURSIVE FindVoice(_, _, _, _)
FindVoice(voices, i, best, oldest_age) ==
    IF i >= MAX_VOICES THEN best
    ELSE IF voices[i].active = 0 THEN i
    ELSE IF ULt(voices[i].age, oldest_age)
        THEN FindVoice(voices, i + 1, i, voices[i].age)
    ELSE FindVoice(voices, i + 1, best, oldest_age)

\* v2_on_midi, the note-on branch (lines 516-556)
NoteOn(in, note, velocity) ==
    LET slice_index == note - in.start_note
        Started(voices, found) ==
            [voices EXCEPT ![IF found < 0 THEN 0 ELSE found] =
                [active |-> 1, slice_index |-> slice_index, position |-> 0,
                 age |-> Add32(in.voice_counter, 1), note |-> note,
                 velocity |-> velocity, gate |-> 1,
                 env |-> AdsrTrigger([value |-> 0, stage |-> @.env.stage])]]
        Alloc(voices) == Started(voices, FindVoice(voices, 0, -1, -1))
    IN IF slice_index < 0 \/ slice_index >= in.rex.slice_count THEN in
       ELSE IF in.rex.slices[slice_index + 1].sample_length = 0 THEN in
       ELSE [in EXCEPT !.voice_counter = Add32(@, 1),
                       !.voices = Alloc(IF in.choke = 1 THEN StopAll(@) ELSE @)]

\* v2_on_midi, the note-off branch (lines 557-570)
NoteOff(in, note) ==
    [in EXCEPT !.voices = [i \in VoiceIds |->
        IF @[i].active = 1 /\ @[i].note = note /\ @[i].gate = 1
            THEN [@[i] EXCEPT !.gate = 0,
                              !.env = IF in.mode = 1 THEN AdsrRelease(@) ELSE @]
        ELSE @[i]]]

\* v2_on_midi on the message msg, a sequence of bytes
V2OnMidi(in, msg) ==
    IF in.rex_loaded = 0 \/ Len(msg) < 2 THEN in
    ELSE LET status == (msg[1] \div 16) * 16
             note == msg[2]
             velocity == IF Len(msg) > 2 THEN msg[3] ELSE 0
         IN IF status = 144 /\ velocity > 0 THEN NoteOn(in, note, velocity)
            ELSE IF status = 128 \/ (status = 144 /\ velocity = 0)
                THEN NoteOff(in, note)
            ELSE IF status = 176 /\ note = 123
                THEN [in EXCEPT !.voices = StopAll(@)]
            ELSE in

---------------------------------------------------------------------------
(* rex_plugin.c: the files of the loops directory and load_rex_file *)

\* a file on disk: the payloads of its SINF chunk (<<>> if it has none), of
\* its SLCE chunks and of its SDAT chunk, in this order inside one CAT
SinfPayload(ch, sr, total) == <<ch, 3, 0, 0>> \o BE16(sr) \o BE32(total)
SlcePayload(offset, len) == BE32(offset) \o BE32(len) \o <<127, 255, 0>>

\* two channels and 4 frames, no slice: the fallback slice
StereoFile ==
    [name |-> "a", sinf |-> SinfPayload(2, 44100, 4), slce |-> <<>>,
     sdat |-> <<165, 195>>]

\* one channel and 3 frames; slices at the offsets 0xFFFFFFFF, 1, 9 and
\* 0x7FFFFFFF
OddSlicesFile ==
    [name |-> "b", sinf |-> <<>>,
     slce |-> <<SlcePayload(-1, 2), SlcePayload(1, 5), SlcePayload(9, 3),
                SlcePayload(MaxInt32, 2)>>,
     sdat |-> <<165, 195>>]

\* an SDAT chunk that decodes no sample
BadFile == [name |-> "c", sinf |-> <<>>, slce |-> <<>>, sdat |-> <<0>>]

DiskMenu == <<StereoFile, OddSlicesFile, BadFile>>

\* files[i] after scan_rex_files, sorted by name
DiskFile(i) == DiskMenu[(i % Len(DiskMenu)) + 1]

RECURSIVE ParseSlces(_, _)
ParseSlces(r, ds) ==
    IF ds = <<>> THEN r
    ELSE ParseSlces(ParseSlce(r, Head(ds), Len(Head(ds))), Tail(ds))

\* rex_parse on the bytes of the file f: [rex, ret]
RexParseFile(f) ==
    LET Tail2(d) == RexParseTail(d.rex, d.ret = 0)
    IN Tail2(DecodeSdat(ParseSlces(ParseSinf(RexDefaults, f.sinf, Len(f.sinf)),
                                   f.slce),
                        f.sdat, Len(f.sdat), TRUE))

Parsed == [k \in 1..Len(DiskMenu) |-> RexParseFile(DiskMenu[k])]

\* LoadRexFile leaving the voices as they are
LoadRexFileKeepsVoices(in, i, io_ok) ==
    LET parsed == Parsed[(i % Len(DiskMenu)) + 1]
    IN IF ~io_ok
           THEN [in EXCEPT !.rex = IF in.rex_loaded = 1 THEN RexFree(@) ELSE @,
                           !.rex_loaded = 0,
                           !.load_error = "Cannot open file"]
       ELSE IF parsed.ret # 0
           THEN [in EXCEPT !.rex = parsed.rex, !.rex_loaded = 0,
                           !.load_error = parsed.rex.error]
       ELSE [in EXCEPT !.rex = parsed.rex, !.rex_loaded = 1,
                       !.load_error = "",
                       !.file_name = DiskFile(i).name]

\* load_rex_file(inst, files[i].path); fopen succeeds iff io_ok
LoadRexFile(in, i, io_ok) ==
    LET Loaded(parsed) ==
            IF ~io_ok
                THEN [in EXCEPT !.rex = IF in.rex_loaded = 1 THEN RexFree(@)
                                        ELSE @,
                                !.rex_loaded = 0, !.voices = StopAll(@),
                                !.load_error = "Cannot open file"]
            ELSE IF parsed.ret # 0
                THEN [in EXCEPT !.rex = parsed.rex, !.rex_loaded = 0,
                                !.voices = StopAll(@),
                                !.load_error = parsed.rex.error]
            ELSE [in EXCEPT !.rex = parsed.rex, !.rex_loaded = 1,
                            !.voices = StopAll(@), !.load_error = "",
                            !.file_name = DiskFile(i).name]
    IN Loaded(Parsed[(i % Len(DiskMenu)) + 1])

\* v2_create_instance without json_defaults, file_count files in the
\* directory.  With no file nothing is loaded, and LoadRexFile is not applied
CreateInstance(file_count, io_ok) ==
    LET Fresh ==
            [rex |-> RexZero, rex_loaded |-> 0,
             voices |-> [i \in VoiceIds |-> VoiceZero], voice_counter |-> 0,
             file_count |-> file_count, file_index |-> 0,
             file_name |-> "No REX loaded", start_note |-> FIRST_NOTE,
             mode |-> 0, choke |-> 0, transpose |-> 0,
             deferred_file_index |-> 0, deferred_load_countdown |-> 0,
             load_error |-> ""]
    IN IF file_count > 0 THEN LoadRexFile(Fresh, 0, io_ok) ELSE Fresh

---------------------------------------------------------------------------
(* rex_plugin.c: v2_set_param.  A call is [key, val]; val is the number    *)
(* atoi reads, the string compared, or for the key "state" the record      *)
(* [file_name, has_index, file_index] of what the JSON text holds          *)
(* (file_name "" when it has no such key).                                 *)

\* the selection of file idx (lines 597-603 and the like)
Select(in, idx) ==
    [in EXCEPT !.file_index = idx, !.file_name = DiskFile(idx).name,
               !.deferred_file_index = idx,
               !.deferred_load_countdown = LOAD_DEBOUNCE_BLOCKS]

\* the index of the first file called name, or -1 (lines 674-685)
RECURSIVE FileNamed(_, _, _)
FileNamed(in, name, i) ==
    IF i >= in.file_count THEN -1
    ELSE IF DiskFile(i).name = name THEN i
    ELSE FileNamed(in, name, i + 1)

\* SelectIndex without the test against file_count
SelectIndexAnyWhere(in, idx) ==
    IF idx >= 0 /\ idx # in.file_index THEN Select(in, idx) ELSE in

\* "preset" / "file_index", and the file_index of "state"
SelectIndex(in, idx) ==
    IF idx >= 0 /\ idx < in.file_count /\ idx # in.file_index
        THEN Select(in, idx)
    ELSE in

Clamped(x, lo, hi) == IF x < lo THEN lo ELSE IF x > hi THEN hi ELSE x

\* v2_set_param(inst, key, val)
V2SetParam(in, key, val) ==
    IF key \in {"preset", "file_index"} THEN SelectIndex(in, val)
    ELSE IF key \in {"next_file", "next_preset"}
        THEN IF in.file_count > 0
                 THEN Select(in, (in.file_index + 1) % in.file_count)
             ELSE in
    ELSE IF key \in {"prev_file", "prev_preset"}
        THEN IF in.file_count > 0
                 THEN Select(in, (in.file_index - 1 + in.file_count)
                                 % in.file_count)
             ELSE in
    ELSE IF key = "start_note"
        THEN [in EXCEPT !.start_note = Clamped(val, 0, 127)]
    ELSE IF key = "mode"
        THEN [in EXCEPT !.mode = IF val = "trigger" THEN 0
                                 ELSE IF val = "gate" THEN 1 ELSE @]
    ELSE IF key = "choke"
        THEN [in EXCEPT !.choke = IF val = "off" THEN 0
                                  ELSE IF val = "on" THEN 1 ELSE @]
    ELSE IF key = "transpose"
        THEN [in EXCEPT !.transpose = Clamped(val, -12, 12)]
    ELSE IF key \in {"all_notes_off", "panic"}
        THEN [in EXCEPT !.voices = StopAll(@)]
    ELSE IF key = "state"
        THEN IF val.file_name # ""
                 THEN LET Found(i) ==
                              IF i >= 0 /\ i # in.file_index THEN Select(in, i)
                              ELSE in
                      IN Found(FileNamed(in, val.file_name, 0))
             ELSE IF val.has_index THEN SelectIndex(in, val.file_index)
             ELSE in
    ELSE in

---------------------------------------------------------------------------
(* rex_plugin.c: v2_render_block *)

\* powf(2.0f, transpose / 12.0f) for the transposes 0 and 12
Rate(transpose) == IF transpose = 12 THEN 2 ELSE 1

\* one frame of the loop of lines 949-1005 for one voice.  x holds the voice
\* v, the loop counter i, slice_done, stop after the break, and lo and hi,
\* the least and the greatest frame index read from pcm (hi = -1: none)
RenderFrame(x, slice_start, slice_end, pcm_limit, rate) ==
    LET env == AdsrProcess(x.v.env)
        pos == slice_start + x.v.position
        Min(a, b) == IF a < b THEN a ELSE b
        Max(a, b) == IF a > b THEN a ELSE b
        Read(y, p) ==
            [y EXCEPT !.lo = IF y.hi < y.lo THEN p ELSE Min(@, p),
                      !.hi = IF y.hi < y.lo THEN p ELSE Max(@, p)]
        Mixed(y, p) ==
            IF p + 1 < slice_end /\ p + 1 < pcm_limit
                THEN Read(Read(y, p), p + 1)
            ELSE Read(y, p)
    IN IF env.stage = ADSR_IDLE
           THEN [x EXCEPT !.v.env = env, !.v.active = 0, !.stop = TRUE]
       ELSE IF x.slice_done = 0 /\ (pos >= slice_end \/ pos >= pcm_limit)
           THEN [x EXCEPT !.v.env = AdsrRelease(env), !.slice_done = 1,
                          !.i = @ + 1]
       ELSE IF x.slice_done = 1
           THEN [x EXCEPT !.v.env = env, !.i = @ + 1]
       ELSE [Mixed(x, pos) EXCEPT !.v.env = env, !.v.position = @ + rate,
                                  !.i = @ + 1]

RenderFramesCont(x, frames) == ~x.stop /\ x.i < frames

RECURSIVE RenderFramesLoop(_, _, _, _, _, _, _)
RenderFramesLoop(x, left, frames, slice_start, slice_end, pcm_limit, rate) ==
    IF left = 0 \/ ~RenderFramesCont(x, frames) THEN x
    ELSE IF left < 0
        THEN RenderFramesLoop(
                 RenderFramesLoop(x, StretchLen, frames, slice_start,
                                  slice_end, pcm_limit, rate),
                 -1, frames, slice_start, slice_end, pcm_limit, rate)
    ELSE RenderFramesLoop(RenderFrame(x, slice_start, slice_end, pcm_limit, rate),
                          left - 1, frames, slice_start, slice_end, pcm_limit,
                          rate)

\* the mixing loop over the voices from index k on (lines 937-1005) on
\* y = [voices, lo, hi, sov]; sov: slice_start + (int)sample_length
\* overflowed
RECURSIVE RenderVoices(_, _, _, _, _)
RenderVoices(y, k, rec, frames, rate) ==
    IF k >= MAX_VOICES THEN y
    ELSE IF y.voices[k].active = 0 THEN RenderVoices(y, k + 1, rec, frames, rate)
    ELSE LET slice == rec.slices[y.voices[k].slice_index + 1]
             Done(x) ==
                 [voices |-> [y.voices EXCEPT ![k] = x.v],
                  lo |-> x.lo, hi |-> x.hi,
                  sov |-> y.sov \/ AddOv(slice.sample_offset, slice.sample_length)]
         IN RenderVoices(
                Done(RenderFramesLoop(
                         [v |-> y.voices[k], i |-> 0, slice_done |-> 0,
                          stop |-> FALSE, lo |-> y.lo, hi |-> y.hi],
                         -1, frames, slice.sample_offset,
                         Add32(slice.sample_offset, slice.sample_length),
                         rec.pcm_samples, rate)),
                k + 1, rec, frames, rate)

\* RenderBlock loading the deferred file on every call that finds the
\* countdown running
RenderBlockLoadsEarly(in, frames, io_ok) ==
    LET in1 == IF in.deferred_load_countdown > 0
                   THEN LoadRexFile([in EXCEPT !.deferred_load_countdown = @ - 1],
                                    in.deferred_file_index, io_ok)
               ELSE in
    IN [inst |-> in1, loads |-> IF in.deferred_load_countdown > 0 THEN 1 ELSE 0,
        lo |-> 0, hi |-> -1, sov |-> FALSE]

\* v2_render_block(inst, out, frames): [inst, loads, lo, hi, sov], loads the
\* number of calls of load_rex_file it made
RenderBlock(in, frames, io_ok) ==
    LET loads == IF in.deferred_load_countdown = 1 THEN 1 ELSE 0
        Mixed(in1, y) ==
            [inst |-> [in1 EXCEPT !.voices = y.voices], loads |-> loads,
             lo |-> y.lo, hi |-> y.hi, sov |-> y.sov]
        Render(in1) ==
            IF in1.rex_loaded = 0 \/ in1.rex.pcm_data = NULL
                THEN [inst |-> in1, loads |-> loads, lo |-> 0, hi |-> -1,
                      sov |-> FALSE]
            ELSE Mixed(in1,
                       RenderVoices([voices |-> in1.voices, lo |-> 0,
                                     hi |-> -1, sov |-> FALSE],
                                    0, in1.rex, frames, Rate(in1.transpose)))
    IN Render(IF in.deferred_load_countdown > 0
                  THEN IF in.deferred_load_countdown = 1
                           THEN LoadRexFile(
                                    [in EXCEPT !.deferred_load_countdown = 0],
                                    in.deferred_file_index, io_ok)
                       ELSE [in EXCEPT !.deferred_load_countdown = @ - 1]
              ELSE in)

---------------------------------------------------------------------------
(* SpecPlugin: one instance, one action per call of the plugin API.  A     *)
(* session fixes the number of files in the directory and caps the calls:  *)
(* note-ons that start a voice (voice_counter), other MIDI messages, calls *)
(* of set_param and calls of render_block.                                 *)

MaxNoteOns == 18       \* note-ons of the session that fills every voice
FewNoteOns == 2        \* note-ons of the other sessions
MaxRenders == 4        \* render_block calls of the session that changes files
MaxSets == 2           \* set_param calls of the session that changes files
MaxFiles == 3          \* files in the directory
FewRenders == 2        \* render_block calls of the other sessions
FewCalls == 1          \* other MIDI messages; set_param calls with no file

\* a directory of one file and enough note-ons to steal voices; a directory
\* of MaxFiles files that are selected and loaded; an empty directory
Sessions ==
    { [file_count |-> 1, on |-> MaxNoteOns, renders |-> FewRenders, sets |-> 0,
       midis |-> 0],
      [file_count |-> MaxFiles, on |-> FewNoteOns, renders |-> MaxRenders,
       sets |-> MaxSets, midis |-> FewCalls],
      [file_count |-> 0, on |-> FewNoteOns, renders |-> FewRenders,
       sets |-> FewCalls, midis |-> FewCalls] }

MidiMenu ==
    { <<144, 36, 100>>, <<144, 37, 100>>, <<144, 38, 100>>, <<144, 39, 100>>,
      <<144, 35, 100>>,
      <<128, 36, 0>>, <<144, 37, 0>>,      \* note off, and note on at velocity 0
      <<176, 123, 0>>,                     \* all notes off
      <<144>> }

StateJson(file_name, has_index, file_index) ==
    [file_name |-> file_name, has_index |-> has_index, file_index |-> file_index]

ParamMenu ==
    { <<"file_index", 1>>, <<"preset", 0>>, <<"file_index", MaxFiles>>,
      <<"file_index", -1>>, <<"next_file", 0>>, <<"prev_preset", 0>>,
      <<"state", StateJson("b", TRUE, 0)>>, <<"state", StateJson("", TRUE, 1)>>,
      <<"state", StateJson("", TRUE, MaxFiles)>>,
      <<"start_note", 37>>, <<"mode", "gate">>, <<"choke", "on">>,
      <<"transpose", 12>>, <<"panic", 0>>, <<"gain", 1>> }

NoPluginCall(op) == [op |-> op, loads |-> 0, lo |-> 0, hi |-> -1]

InitPlugin ==
    /\ ParseIdle
    /\ DwopIdle
    /\ DwvwIdle
    /\ \E session \in Sessions, io_ok \in BOOLEAN :
           /\ inst = CreateInstance(session.file_count, io_ok)
           /\ pcall = NoPluginCall("create")
           /\ pcount = [renders |-> 0, sets |-> 0, midis |-> 0, cap |-> session]

PluginFrame == UNCHANGED <<parseVars, dwopVars, dwvwVars>>

\* The history variables record the calls that changed the instance: a call
\* that leaves it as it was is a stuttering step.

\* on_midi(inst, msg, len, source)
PluginOnMidi ==
    /\ pcall.op # "trap"
    /\ \E msg \in MidiMenu :
           LET Acted(in) ==
                   /\ in # inst
                   /\ IF in.voice_counter # inst.voice_counter
                          THEN in.voice_counter <= pcount.cap.on
                               /\ pcount' = pcount
                      ELSE pcount.midis < pcount.cap.midis
                           /\ pcount' = [pcount EXCEPT !.midis = @ + 1]
                   /\ inst' = in
           IN Acted(V2OnMidi(inst, msg))
    /\ pcall' = NoPluginCall("on_midi")
    /\ PluginFrame

\* set_param(inst, key, val)
PluginSetParam ==
    /\ pcall.op # "trap"
    /\ pcount.sets < pcount.cap.sets
    /\ \E kv \in ParamMenu :
           /\ V2SetParam(inst, kv[1], kv[2]) # inst
           /\ inst' = V2SetParam(inst, kv[1], kv[2])
    /\ pcall' = NoPluginCall("set_param")
    /\ pcount' = [pcount EXCEPT !.sets = @ + 1]
    /\ PluginFrame

\* render_block(inst, out, MOVE_FRAMES_PER_BLOCK).  The signed overflow of
\* slice_start + (int)sample_length either wraps or traps
PluginRenderBlock ==
    /\ pcall.op # "trap"
    /\ pcount.renders < pcount.cap.renders
    /\ \E io_ok \in BOOLEAN :
           LET Rendered(r) ==
                   \E trap \in Traps(r.sov) :
                       IF trap
                           THEN inst' = inst /\ pcall' = NoPluginCall("trap")
                       ELSE /\ r.inst # inst
                            /\ inst' = r.inst
                            /\ pcall' = [op |-> "render_block",
                                         loads |-> r.loads, lo |-> r.lo,
                                         hi |-> r.hi]
           IN Rendered(RenderBlock(inst, MOVE_FRAMES_PER_BLOCK, io_ok))
    /\ pcount' = [pcount EXCEPT !.renders = @ + 1]
    /\ PluginFrame

NextPlugin == PluginOnMidi \/ PluginSetParam \/ PluginRenderBlock

SpecPlugin == InitPlugin /\ [][NextPlugin]_vars

---------------------------------------------------------------------------
(* Properties of rex_plugin.c (SpecPlugin) *)

\* the step is a note-on that started a voice
NoteOnStep == pcall'.op = "on_midi" /\ inst'.voice_counter # inst.voice_counter

\* voice i is the one the note-on step started
StartedVoice(i) ==
    inst'.voices[i].active = 1 /\ inst'.voices[i].age = inst'.voice_counter

ChangedVoices == {i \in VoiceIds : inst'.voices[i] # inst.voices[i]}

\* the note-on took voice i as the claim says: a free voice if there was one,
\* else one of the least age
TakenByRule(i) ==
    IF \E j \in VoiceIds : inst.voices[j].active = 0
        THEN inst.voices[i].active = 0
    ELSE \A j \in VoiceIds : ~ULt(inst.voices[j].age, inst.voices[i].age)

\* C36: a note-on that is accepted starts exactly one voice.  With choke off
\* it is a free voice if one exists and otherwise the active voice of the
\* least age, and no other voice changes; with choke on every other voice is
\* inactive afterwards.
C36_VoiceAllocation ==
    [][NoteOnStep =>
           \E i \in VoiceIds :
               /\ StartedVoice(i)
               /\ \A j \in VoiceIds \ {i} : ~StartedVoice(j)
               /\ inst.choke = 0 => TakenByRule(i) /\ ChangedVoices = {i}
               /\ inst.choke = 1 =>
                      \A j \in VoiceIds \ {i} : inst'.voices[j].active = 0]_vars

\* every voice was taken and the seventeenth and eighteenth note-on stole
\* the two oldest
C36_StoleOldest ==
    /\ pcall.op = "on_midi"
    /\ inst.choke = 0
    /\ inst.voice_counter = MAX_VOICES + 2
    /\ \A i \in VoiceIds : inst.voices[i].active = 1
    /\ inst.voices[0].age = MAX_VOICES + 1
    /\ inst.voices[1].age = MAX_VOICES + 2

\* voice i plays a slice of the loaded record that has audio
PlaysLoadedSlice(i) ==
    /\ inst.rex_loaded = 1
    /\ inst.voices[i].slice_index >= 0
    /\ inst.voices[i].slice_index < inst.rex.slice_count
    /\ inst.rex.slices[inst.voices[i].slice_index + 1].sample_length # 0

\* C37: every active voice has a slice_index inside the slice table of the
\* record now loaded, at a slice of non-zero length, and no call of
\* render_block reads pcm_data at a frame index >= pcm_samples.
C37_VoicesInsideRecord ==
    /\ \A i \in VoiceIds : inst.voices[i].active = 1 => PlaysLoadedSlice(i)
    /\ pcall.op = "render_block" /\ pcall.lo <= pcall.hi
           => pcall.hi < inst.rex.pcm_samples

\* after a file change and its deferred load, a voice of the second slice of
\* the new record was mixed up to the last frame of the audio
C37_MixedToLastFrame ==
    /\ pcall.op = "render_block"
    /\ inst.file_index = 1
    /\ inst.rex.slice_count = 4
    /\ pcall.hi = inst.rex.pcm_samples - 1
    /\ \E i \in VoiceIds :
           inst.voices[i].active = 1 /\ inst.voices[i].slice_index = 1

\* a step that is no render_block call loads nothing, and one that selects
\* a file starts the countdown at LOAD_DEBOUNCE_BLOCKS for that file
SelectionDeferred ==
    pcall'.op \in {"set_param", "on_midi"} =>
        /\ inst'.rex = inst.rex /\ inst'.rex_loaded = inst.rex_loaded
        /\ pcall'.loads = 0
        /\ \/ /\ inst'.file_index = inst.file_index
              /\ inst'.deferred_file_index = inst.deferred_file_index
              /\ inst'.deferred_load_countdown = inst.deferred_load_countdown
           \/ /\ pcall'.op = "set_param"
              /\ inst'.deferred_file_index = inst'.file_index
              /\ inst'.deferred_load_countdown = LOAD_DEBOUNCE_BLOCKS

\* a render_block call takes a running countdown down by one and calls
\* load_rex_file once, for the file selected last, when it reaches 0, and
\* never otherwise
LoadAtZero ==
    pcall'.op = "render_block" =>
        /\ inst'.file_index = inst.file_index
        /\ inst'.deferred_file_index = inst.deferred_file_index
        /\ IF inst.deferred_load_countdown > 0
               THEN inst'.deferred_load_countdown = inst.deferred_load_countdown - 1
           ELSE inst'.deferred_load_countdown = 0
        /\ pcall'.loads = IF inst.deferred_load_countdown = 1 THEN 1 ELSE 0
        /\ pcall'.loads = 0 =>
               inst'.rex = inst.rex /\ inst'.rex_loaded = inst.rex_loaded
        /\ pcall'.loads = 1 /\ inst'.rex_loaded = 1 =>
               /\ inst'.rex = RexParseFile(DiskFile(inst.file_index)).rex
               /\ inst'.file_name = DiskFile(inst.file_index).name

\* C38: a file selection through set_param loads nothing at once; it sets a
\* countdown of 3 render blocks, which a further selection restarts, and the
\* file selected last is loaded once, by the render_block call that takes
\* the countdown to 0.
C38_DeferredLoad ==
    /\ [][SelectionDeferred /\ LoadAtZero]_vars
    /\ [](/\ inst.deferred_load_countdown \in 0..LOAD_DEBOUNCE_BLOCKS
          /\ inst.deferred_load_countdown > 0 =>
                 inst.deferred_file_index = inst.file_index)

\* no voice was ever started, so the four render_block calls that changed
\* the instance all found the countdown running: one after the first
\* selection, and three after the second, the last of which loaded
C38_LoadedAfterRestart ==
    /\ pcall.op = "render_block"
    /\ pcall.loads = 1
    /\ inst.voice_counter = 0
    /\ pcount.sets = 2
    /\ pcount.renders = LOAD_DEBOUNCE_BLOCKS + 1
    /\ inst.rex_loaded = 1
    /\ inst.file_index = 1

\* the step is a note-off that released a held voice
NoteOffStep ==
    /\ pcall'.op = "on_midi"
    /\ inst'.voice_counter = inst.voice_counter
    /\ \E i \in VoiceIds : inst'.voices[i].gate # inst.voices[i].gate

\* what a note-off step does to voice i: a voice it releases was active and
\* held, loses its gate and, in gate mode only, enters RELEASE; it releases
\* every held voice of the note; any other voice is left alone
Released(i) ==
    IF inst'.voices[i].gate # inst.voices[i].gate
        THEN /\ inst.voices[i].active = 1 /\ inst.voices[i].gate = 1
             /\ inst'.voices[i] =
                    [inst.voices[i] EXCEPT
                        !.gate = 0,
                        !.env.stage = IF inst.mode = 1 THEN ADSR_RELEASE ELSE @]
             /\ \A j \in VoiceIds :
                    /\ inst.voices[j].active = 1 /\ inst.voices[j].gate = 1
                    /\ inst.voices[j].note = inst.voices[i].note
                    => inst'.voices[j].gate = 0
    ELSE inst'.voices[i] = inst.voices[i]

\* the envelope of voice i does not leave RELEASE except to IDLE
StaysReleasing(i) ==
    inst.voices[i].env.stage = ADSR_RELEASE
        => inst'.voices[i].env.stage \in {ADSR_RELEASE, ADSR_IDLE}

\* a voice whose envelope a render_block call takes to IDLE is inactive
\* after the call
IdleIsInactive(i) ==
    /\ pcall'.op = "render_block"
    /\ inst.voices[i].active = 1
    /\ inst'.voices[i].env.stage = ADSR_IDLE
    => inst'.voices[i].active = 0

C40_IndexesInRange ==
    inst.file_count > 0 =>
        /\ inst.file_index >= 0 /\ inst.file_index < inst.file_count
        /\ inst.deferred_file_index >= 0
        /\ inst.deferred_file_index < inst.file_count

\* the first set_param call went from file 0 to the last file: no call of
\* the menu names that index, so it was prev_preset wrapping around
C40_WrappedToLastFile ==
    /\ pcall.op = "set_param"
    /\ pcount.sets = 1
    /\ inst.file_count = MaxFiles
    /\ inst.file_index = MaxFiles - 1
    /\ inst.deferred_file_index = MaxFiles - 1

============================================================================
